---------------------------- MODULE Spec2Model ----------------------------
(***************************************************************************)
(* Verification model of the Telara back-end core (eljaska/telara).        *)
(*                                                                         *)
(* The module holds several specifications over one set of variables:      *)
(*   SpecBatch    - BatchWriteBuffer (src/api/database.py) with the        *)
(*                  pause/resume callers of src/api/main.py;               *)
(*   LiveBatch    - SpecBatch plus the fairness of the flush loop;         *)
(*   SpecRouter   - VitalsRepository query routing;                        *)
(*   SpecFusion   - SpeedLayerAggregator;                                  *)
(*   SpecDetector - the MATCH_RECOGNIZE queries of flink_job.py;           *)
(*   SpecWatermark - the event time of the queries' source table;          *)
(*   SpecDispatch - the Kafka consumer's dispatch to its listeners;        *)
(*   SpecManager - the ConnectionManager's broadcasts to its clients;      *)
(*   SpecReplay - the replay buffer and the initial state of a client;     *)
(*   SpecStore - the vitals table of the SQLite store;                     *)
(*   SpecAlertStore - the alerts table of the SQLite store;                *)
(*   SpecRing - InMemoryVitalsStore and the baseline the checks read;      *)
(*   SpecGenerator - the GroundTruthState of the data generator;           *)
(*   SpecLifespan - the startup and shutdown order of the API server;      *)
(*   SpecLock - the locks of the shared structures;                        *)
(*   SpecPipeline - the topics between the generator and the detector;     *)
(*   SpecHistorical - overlapping historical wipe and load requests;       *)
(*   SpecSource - a source's topic while the source is switched off and on; *)
(*   SpecChat - the conversation session of the health coach agent.        *)
(* Each specification leaves the variables of the others at their initial  *)
(* values.                                                                 *)
(***************************************************************************)
EXTENDS Integers, Sequences, FiniteSets, Bags, TLC

VARIABLES
    \* ---- BatchWriteBuffer ------------------------------------------------
    buffer,         \* _buffer: events awaiting persistence (event ids)
    paused,         \* _paused
    enabled,        \* _enabled
    total_flushed,  \* _total_flushed
    flush_task,     \* _flush_task: "none" | "sleeping" | "flushing" | "done"
    loop_batch,     \* events_to_flush of the flush() called by _flush_loop
    stop_pc,        \* stop(): "idle" | "awaiting" | "final_flush" | "stopped"
    stop_batch,     \* events_to_flush of the final flush() called by stop()
    vitals_table,   \* rows of the vitals table, by event_id
    hist,           \* per historical request: "idle" | "wipe" | "load" | "finishing"
    offered,        \* number of events offered to add() so far
    accepted,       \* history: event ids add() has appended to the buffer
    written,        \* history: event ids a flush has committed
    last_outcome,   \* history: outcome of the most recent batch write
    enq_in_flight,  \* history: add() appended while the latest write was in flight
    \* ---- InMemoryVitalsStore / VitalsRepository --------------------------
    vitals,         \* InMemoryVitalsStore._vitals: the ring, newest at the tail
    sqlite_rows,    \* rows of the vitals table as the queries see them
    clock,          \* datetime.utcnow(), in minutes
    last_query,     \* the latest repository query: what it read and returned
    \* ---- SpeedLayerAggregator --------------------------------------------
    latest_by_source,  \* _latest_by_source: per metric, the sources' readings
    aggregated_state,  \* _aggregated_state
    last_update,       \* _last_update, in ms
    fnow,              \* datetime.utcnow() of the aggregator, in ms
    newest_seen,       \* history: the newest readable timestamp ingested, its values
    \* ---- detector (flink_job.py) ------------------------------------------
    rows,              \* biometrics_raw per user_id partition, ordered by ts
    skip_to,           \* per query and partition: the row matching resumes at
    alerts,            \* biometrics_alerts: the bag of rows inserted
    \* ---- event time of the detector's source table -------------------------
    arrivals,          \* the rows read from the topic, in arrival order
    max_ts,            \* greatest ts the watermark generator has seen
    watermark,         \* the watermark the pattern operator last received
    cep_buffer,        \* rows (by arrival number) waiting for the watermark
    considered,        \* rows handed to the patterns, in that order
    ignored,           \* late rows the pattern operator dropped
    \* ---- Kafka consumer and ConnectionManager -----------------------------
    source_enabled,    \* sources[source_id]["enabled"] of the one source modelled
    worker_pc,         \* where the source's consumer thread is in its loop
    consumed,          \* messages the source's consumer has polled so far
    alerts_consumed,   \* messages the alerts consumer has polled so far
    message_callbacks, \* the registered callbacks, in the set's iteration order
    tasks,             \* the _dispatch_message coroutines, in scheduling order
    enrich,            \* per alert, its _enrich_alert task
    active_connections,
    health,            \* what a send to a connection does
    outbox,            \* per connection, the messages sent to it, in order
    mb_vitals,         \* message_buffer.vitals
    mb_alerts,         \* message_buffer.alerts
    source_stats,      \* message_buffer.source_stats[source]["count"]
    invoked,           \* history: per callback, the messages it was called with
    added,             \* history: the messages given to add_message, by type
    failed_sends,      \* history: connections a finished send attempt failed on
    \* ---- SQLite tables of database.py -------------------------------------
    vitals_db,         \* the vitals table: its rows and its AUTOINCREMENT counter
    alerts_db,         \* the alerts table: its rows and its AUTOINCREMENT counter
    db_now,            \* CURRENT_TIMESTAMP, one tick per statement
    flush_retry,       \* the batch flush() has put back for a retry
    vitals_again,      \* history: a batch already in the table was committed
    alert_ids,         \* history: the alert_id values stored
    insight_ids,       \* history: the alert_id values update_insight has run for
    alerts_again,      \* history: an alert_id already stored was stored
    \* ---- InMemoryVitalsStore and the user_baselines table ----------------
    hot_ring,          \* _vitals: the deque of the store, newest at the tail
    baseline_data,     \* _baseline_data: per user, its data_points
    user_baselines,    \* the table: per user, the data_points of its row
    appended,          \* history: the user of every event given to add()
    latest_got,        \* the latest get_latest: its user and what it returned
    deviation,         \* the latest get_deviation_alert: its user, what it read
    \* ---- GroundTruthState (data-generator) --------------------------------
    gen_time,           \* time.time() of the generator, in seconds
    gt_last_update,     \* _last_update
    anomaly_type,       \* _anomaly_type ("none" for None)
    anomaly_end_time,   \* _anomaly_end_time (-1 for None)
    baseline_offset,    \* _baseline_*_offset, fixed at construction
    gt_state,           \* the nine physiological values, in tenths
    snapshot,           \* the PhysiologicalState get_current_state returned last
    evolve_dt,          \* history: dt the last evolution step applied
    anomaly_active,     \* MultiSourceProducer.anomaly_active
    inject_outcome,     \* history: how the last inject_anomaly ended
    \* ---- lifespan of the API server (src/api/main.py) ---------------------
    ls_step,            \* position in lifespan: index of the next step
    ls_failed,          \* a startup step raised: the server does not start
    db_tables,          \* the tables of the SQLite file
    ring_cleared,       \* vitals_store.clear() has run
    ls_ring,            \* number of events in the in-memory store
    consumer_running,   \* the consumer threads are started and not stopped
    ls_flusher,         \* the flush task: "none" | "running" | "stopped"
    ls_enabled,         \* batch_buffer._enabled
    ls_pending,         \* number of events in the batch buffer
    ls_flushed,         \* number of events flushed to the vitals table
    delivered,          \* history: per event given to the listener, what existed then
    ls_log,             \* history: the steps of lifespan, in the order they ran
    \* ---- the locks of the shared structures -------------------------------
    lock_owner,         \* per lock, the operation that holds it ("free" for none)
    lk_pc,              \* per operation, its position in its call path
    lk_query,           \* the structure the running query reads
    \* ---- the topics between the generator and the detector ----------------
    topics,             \* per Kafka topic, the events published on it
    flink_offset,       \* number of records the source table has read
    detector_stream,    \* the rows of the user fed to MATCH_RECOGNIZE
    pipeline_alerts,    \* number of alerts written to biometrics-alerts
    \* ---- the source's topic -----------------------------------------------
    source_log,         \* the source's topic: for each event published, whether
                        \* the source was enabled then
    assigned,           \* the worker's consumer has its position in the topic
    \* ---- ConversationSession and HealthCoachAgent.chat --------------------
    session_messages,   \* session.messages: the roles of the messages kept
    chat_pc,            \* chat(): "idle" | "called" | "tool_use"
    sent_to_model,      \* the roles of the list last passed to messages.create
    chat_turns          \* the chat turns begun

batchVars == << buffer, paused, enabled, total_flushed, flush_task, loop_batch,
                stop_pc, stop_batch, vitals_table, hist, offered, accepted,
                written, last_outcome, enq_in_flight >>

routerVars == << vitals, sqlite_rows, clock, last_query >>

fusionVars == << latest_by_source, aggregated_state, last_update, fnow,
                 newest_seen >>

detectorVars == << rows, skip_to, alerts >>

watermarkVars == << arrivals, max_ts, watermark, cep_buffer, considered,
                    ignored >>

dispatchVars == << source_enabled, worker_pc, consumed, alerts_consumed,
                   message_callbacks, tasks, enrich, active_connections,
                   health, outbox, mb_vitals, mb_alerts, source_stats,
                   invoked, added, failed_sends >>

storeVars == << vitals_db, alerts_db, db_now, flush_retry, vitals_again,
               alert_ids, alerts_again, insight_ids >>

ringVars == << hot_ring, baseline_data, user_baselines, appended,
              latest_got, deviation >>

generatorVars == << gen_time, gt_last_update, anomaly_type, anomaly_end_time,
                    baseline_offset, gt_state, snapshot, evolve_dt,
                    anomaly_active, inject_outcome >>

lifespanVars == << ls_step, ls_failed, db_tables, ring_cleared, ls_ring,
                   consumer_running, ls_flusher, ls_enabled, ls_pending,
                   ls_flushed, delivered, ls_log >>

lockVars == << lock_owner, lk_pc, lk_query >>

pipelineVars == << topics, flink_offset, detector_stream, pipeline_alerts >>

backlogVars == << source_log, assigned >>

sessionVars == << session_messages, chat_pc, sent_to_model, chat_turns >>

vars == << batchVars, routerVars, fusionVars, detectorVars, watermarkVars,
           dispatchVars, storeVars, ringVars, generatorVars, lifespanVars,
           lockVars, pipelineVars, backlogVars, sessionVars >>

\* What an action of one component leaves alone.
notBatch == << routerVars, fusionVars, detectorVars, watermarkVars,
               dispatchVars, storeVars, ringVars, generatorVars,
               lifespanVars, lockVars, pipelineVars, backlogVars,
               sessionVars >>
notRouter == << batchVars, fusionVars, detectorVars, watermarkVars,
                dispatchVars, storeVars, ringVars, generatorVars,
                lifespanVars, lockVars, pipelineVars, backlogVars,
                sessionVars >>
notFusion == << batchVars, routerVars, detectorVars, watermarkVars,
                dispatchVars, storeVars, ringVars, generatorVars,
                lifespanVars, lockVars, pipelineVars, backlogVars,
                sessionVars >>
notDetector == << batchVars, routerVars, fusionVars, watermarkVars,
                  dispatchVars, storeVars, ringVars, generatorVars,
                  lifespanVars, lockVars, pipelineVars, backlogVars,
                  sessionVars >>
notDispatch == << batchVars, routerVars, fusionVars, detectorVars,
                  watermarkVars, storeVars, ringVars, generatorVars,
                  lifespanVars, lockVars, pipelineVars, backlogVars,
                  sessionVars >>
notStore == << batchVars, routerVars, fusionVars, detectorVars,
               watermarkVars, dispatchVars, ringVars, generatorVars,
               lifespanVars, lockVars, pipelineVars, backlogVars,
               sessionVars >>
notWatermark == << batchVars, routerVars, fusionVars, detectorVars,
                   dispatchVars, storeVars, ringVars, generatorVars,
                   lifespanVars, lockVars, pipelineVars, backlogVars,
                   sessionVars >>
notRing == << batchVars, routerVars, fusionVars, detectorVars, watermarkVars,
              dispatchVars, storeVars, generatorVars, lifespanVars, lockVars,
              pipelineVars, backlogVars, sessionVars >>
notGenerator == << batchVars, routerVars, fusionVars, detectorVars,
                   watermarkVars, dispatchVars, storeVars, ringVars,
                   lifespanVars, lockVars, pipelineVars, backlogVars,
                   sessionVars >>
notLifespan == << batchVars, routerVars, fusionVars, detectorVars,
                  watermarkVars, dispatchVars, storeVars, ringVars,
                  generatorVars, lockVars, pipelineVars, backlogVars,
                  sessionVars >>
notLock == << batchVars, routerVars, fusionVars, detectorVars, watermarkVars,
              dispatchVars, storeVars, ringVars, generatorVars, lifespanVars,
              pipelineVars, backlogVars, sessionVars >>
notPipeline == << batchVars, routerVars, fusionVars, detectorVars,
                  watermarkVars, dispatchVars, storeVars, ringVars,
                  generatorVars, lifespanVars, lockVars, backlogVars,
                  sessionVars >>
notBacklog == << batchVars, routerVars, fusionVars, detectorVars,
                 watermarkVars, dispatchVars, storeVars, ringVars,
                 generatorVars, lifespanVars, lockVars, pipelineVars,
                 sessionVars >>
notSession == << batchVars, routerVars, fusionVars, detectorVars,
                 watermarkVars, dispatchVars, storeVars, ringVars,
                 generatorVars, lifespanVars, lockVars, pipelineVars,
                 backlogVars >>

----------------------------------------------------------------------------
(* Bounds of the model.                                                     *)

MaxEvents == 3
BatchSize == 2
MaxRequests == 1
MaxOverlap == 2
MaxTurns == 11
RingSize == 2
MaxTicks == 1
MaxRows == 1
MaxFusionTicks == 3
MaxStream == 8
MaxArrivals == 3
MaxEventTime == 10
MaxVitalMessages == 2
MaxAlertMessages == 1
max_vitals == 2
max_alerts == 2
InitialVitals == 1
InitialAlerts == 1
MaxBatchLen == 2
MaxStatements == 2
MaxAlertStatements == 3
MaxAppends == 10
MaxGenTime == 6
MaxLifespanMessages == 4
MaxPublished == 5
NoiseMax == 2000

\* _evolve_state caps dt at 5.0 seconds.
MAX_DT == 5

----------------------------------------------------------------------------
(* Helpers.                                                                 *)

Min(a, b) == IF a < b THEN a ELSE b

Range(s) == { s[i] : i \in 1..Len(s) }

NoDup(s) == \A i, j \in 1..Len(s) : i # j => s[i] # s[j]

----------------------------------------------------------------------------
(* BatchWriteBuffer (src/api/database.py).                                  *)

EventIds == 1..MaxEvents
HistoricalRows == { 0 }
Requests == 1..MaxRequests

\* Requests to the two historical endpoints that may be in progress together.
OverlappingRequests == 1..(MaxRequests + MaxOverlap - 1)

\* add() that does not look at _paused.
AddGateUnpaused(en, pa) == en

\* add(): "if not self._enabled or self._paused: return".
AddGate(en, pa) == en /\ ~pa

\* flush(): events_to_flush = self._buffer[:self._batch_size]
TakeBatch(buf) == SubSeq(buf, 1, Min(BatchSize, Len(buf)))

\* flush(): self._buffer = self._buffer[self._batch_size:]
DropBatch(buf) == SubSeq(buf, Min(BatchSize, Len(buf)) + 1, Len(buf))

RequeueAtTail(batch, buf) == buf \o batch

RequeueDropped(batch, buf) == buf

\* flush(), except branch: self._buffer = events_to_flush + self._buffer
Requeue(batch, buf) == batch \o buf

InitBatch ==
    /\ buffer = << >>
    /\ paused = FALSE
    /\ enabled = TRUE
    /\ total_flushed = 0
    /\ flush_task = "none"
    /\ loop_batch = << >>
    /\ stop_pc = "idle"
    /\ stop_batch = << >>
    /\ vitals_table = {}
    /\ hist = [r \in OverlappingRequests |-> "idle"]
    /\ offered = 0
    /\ accepted = {}
    /\ written = {}
    /\ last_outcome = "none"
    /\ enq_in_flight = FALSE

\* BatchWriteBuffer.add, called by ConnectionManager.broadcast for each vital.
add ==
    /\ offered < MaxEvents
    /\ offered' = offered + 1
    /\ IF AddGate(enabled, paused)
         THEN /\ buffer' = Append(buffer, offered + 1)
              /\ accepted' = accepted \cup { offered + 1 }
         ELSE UNCHANGED << buffer, accepted >>
    /\ enq_in_flight' = (enq_in_flight \/ (AddGate(enabled, paused)
                            /\ (flush_task = "flushing" \/ stop_pc = "final_flush")))
    /\ UNCHANGED << paused, enabled, total_flushed, flush_task, loop_batch,
                    stop_pc, stop_batch, vitals_table, hist, written,
                    last_outcome >>
    /\ UNCHANGED notBatch

\* start_flush_loop, called by lifespan after ingestion has started.
start_flush_loop ==
    /\ flush_task = "none"
    /\ stop_pc = "idle"
    /\ flush_task' = "sleeping"
    /\ UNCHANGED << buffer, paused, enabled, total_flushed, loop_batch, stop_pc,
                    stop_batch, vitals_table, hist, offered, accepted, written,
                    last_outcome >>
    /\ UNCHANGED enq_in_flight
    /\ UNCHANGED notBatch

\* _flush_loop wakes from asyncio.sleep: "if not self._paused: await self.flush()";
\* flush() takes the batch under the lock and suspends on the store write.
FlushLoopWake ==
    /\ flush_task = "sleeping"
    /\ enabled
    /\ IF ~paused /\ buffer # << >>
         THEN /\ loop_batch' = TakeBatch(buffer)
              /\ buffer' = DropBatch(buffer)
              /\ flush_task' = "flushing"
              /\ enq_in_flight' = FALSE
         ELSE UNCHANGED << buffer, loop_batch, flush_task, enq_in_flight >>
    /\ UNCHANGED << paused, enabled, total_flushed, stop_pc, stop_batch,
                    vitals_table, hist, offered, accepted, written,
                    last_outcome >>
    /\ UNCHANGED notBatch

\* The write of the loop's flush() commits.
FlushLoopWriteOk ==
    /\ flush_task = "flushing"
    /\ stop_pc = "idle"
    /\ vitals_table' = vitals_table \cup Range(loop_batch)
    /\ written' = written \cup Range(loop_batch)
    /\ total_flushed' = total_flushed + Len(loop_batch)
    /\ loop_batch' = << >>
    /\ flush_task' = "sleeping"
    /\ last_outcome' = "ok"
    /\ UNCHANGED << buffer, paused, enabled, stop_pc, stop_batch, hist, offered,
                    accepted >>
    /\ UNCHANGED enq_in_flight
    /\ UNCHANGED notBatch

\* The write of the loop's flush() raises: the batch is put back.
FlushLoopWriteFail ==
    /\ flush_task = "flushing"
    /\ stop_pc = "idle"
    /\ buffer' = Requeue(loop_batch, buffer)
    /\ loop_batch' = << >>
    /\ flush_task' = "sleeping"
    /\ last_outcome' = "failed"
    /\ UNCHANGED << paused, enabled, total_flushed, stop_pc, stop_batch,
                    vitals_table, hist, offered, accepted, written >>
    /\ UNCHANGED enq_in_flight
    /\ UNCHANGED notBatch

\* stop(): self._enabled = False; self._flush_task.cancel(); await it.
StopBegin ==
    /\ stop_pc = "idle"
    /\ flush_task \in { "sleeping", "flushing" }
    /\ enabled' = FALSE
    /\ stop_pc' = "awaiting"
    /\ UNCHANGED << buffer, paused, total_flushed, flush_task, loop_batch,
                    stop_batch, vitals_table, hist, offered, accepted, written,
                    last_outcome >>
    /\ UNCHANGED enq_in_flight
    /\ UNCHANGED notBatch

\* The flush task receives CancelledError at its pending await.  In flush() it
\* is no Exception, so the except branch does not run and the batch in flight
\* is not put back; whether the store commits it depends on how far the write
\* had got.
FlushTaskCancelled ==
    /\ stop_pc = "awaiting"
    /\ flush_task \in { "sleeping", "flushing" }
    /\ \E committed \in BOOLEAN :
          /\ flush_task = "sleeping" => ~committed
          /\ vitals_table' = IF committed THEN vitals_table \cup Range(loop_batch)
                                          ELSE vitals_table
          /\ written' = IF committed THEN written \cup Range(loop_batch)
                                     ELSE written
          /\ last_outcome' = IF flush_task = "flushing" THEN "cancelled"
                                                        ELSE last_outcome
    /\ loop_batch' = << >>
    /\ flush_task' = "done"
    /\ UNCHANGED << buffer, paused, enabled, total_flushed, stop_pc, stop_batch,
                    hist, offered, accepted >>
    /\ UNCHANGED enq_in_flight
    /\ UNCHANGED notBatch

\* stop() resumes after the task has ended and calls flush() once.
StopFinalFlush ==
    /\ stop_pc = "awaiting"
    /\ flush_task = "done"
    /\ IF buffer # << >>
         THEN /\ stop_batch' = TakeBatch(buffer)
              /\ buffer' = DropBatch(buffer)
              /\ stop_pc' = "final_flush"
              /\ enq_in_flight' = FALSE
         ELSE /\ stop_pc' = "stopped"
              /\ UNCHANGED << buffer, stop_batch, enq_in_flight >>
    /\ UNCHANGED << paused, enabled, total_flushed, flush_task, loop_batch,
                    vitals_table, hist, offered, accepted, written,
                    last_outcome >>
    /\ UNCHANGED notBatch

StopWriteOk ==
    /\ stop_pc = "final_flush"
    /\ vitals_table' = vitals_table \cup Range(stop_batch)
    /\ written' = written \cup Range(stop_batch)
    /\ total_flushed' = total_flushed + Len(stop_batch)
    /\ stop_batch' = << >>
    /\ stop_pc' = "stopped"
    /\ last_outcome' = "ok"
    /\ UNCHANGED << buffer, paused, enabled, flush_task, loop_batch, hist,
                    offered, accepted >>
    /\ UNCHANGED enq_in_flight
    /\ UNCHANGED notBatch

StopWriteFail ==
    /\ stop_pc = "final_flush"
    /\ buffer' = Requeue(stop_batch, buffer)
    /\ stop_batch' = << >>
    /\ stop_pc' = "stopped"
    /\ last_outcome' = "failed"
    /\ UNCHANGED << paused, enabled, total_flushed, flush_task, loop_batch,
                    vitals_table, hist, offered, accepted, written >>
    /\ UNCHANGED enq_in_flight
    /\ UNCHANGED notBatch

\* wipe_historical_data / generate_historical_data: batch_buffer.pause().
HistBegin(r) ==
    /\ hist[r] = "idle"
    /\ \E kind \in { "wipe", "load" } : hist' = [hist EXCEPT ![r] = kind]
    /\ paused' = TRUE
    /\ UNCHANGED << buffer, enabled, total_flushed, flush_task, loop_batch,
                    stop_pc, stop_batch, vitals_table, offered, accepted,
                    written, last_outcome >>
    /\ UNCHANGED enq_in_flight
    /\ UNCHANGED notBatch

\* A resume that runs only after the request's work succeeded.
ResumeOnSuccess(outcome, pa) == IF outcome = "failed" THEN pa ELSE FALSE

\* finally: batch_buffer.resume(): runs on normal return and on every exception.
ResumeInFinally(outcome, pa) == FALSE

\* The awaited work of the request: DELETE FROM vitals, or the request to the
\* generator and the bulk insert of the generated rows.  An await that raises
\* changes nothing in the table, and the exception runs the finally clause
\* before the event loop gets control again.
HistWork(r) ==
    /\ hist[r] \in { "wipe", "load" }
    /\ \E ok \in BOOLEAN :
          IF ok
          THEN /\ vitals_table' = IF hist[r] = "wipe" THEN {}
                                  ELSE vitals_table \cup HistoricalRows
               /\ hist' = [hist EXCEPT ![r] = "finishing"]
               /\ UNCHANGED paused
          ELSE /\ hist' = [hist EXCEPT ![r] = "idle"]
               /\ paused' = ResumeInFinally("failed", paused)
               /\ UNCHANGED vitals_table
    /\ UNCHANGED << buffer, enabled, total_flushed, flush_task,
                    loop_batch, stop_pc, stop_batch, offered, accepted, written,
                    last_outcome >>
    /\ UNCHANGED enq_in_flight
    /\ UNCHANGED notBatch

\* The work has returned: finally: batch_buffer.resume().
HistEnd(r) ==
    /\ hist[r] = "finishing"
    /\ hist' = [hist EXCEPT ![r] = "idle"]
    /\ paused' = ResumeInFinally("done", paused)
    /\ UNCHANGED << buffer, enabled, total_flushed, flush_task, loop_batch,
                    stop_pc, stop_batch, vitals_table, offered, accepted,
                    written, last_outcome >>
    /\ UNCHANGED enq_in_flight
    /\ UNCHANGED notBatch

NextBatch ==
    \/ add
    \/ start_flush_loop
    \/ FlushLoopWake
    \/ FlushLoopWriteOk
    \/ FlushLoopWriteFail
    \/ StopBegin
    \/ FlushTaskCancelled
    \/ StopFinalFlush
    \/ StopWriteOk
    \/ StopWriteFail
    \/ \E r \in Requests : HistBegin(r)
    \/ \E r \in Requests : HistWork(r)
    \/ \E r \in Requests : HistEnd(r)

----------------------------------------------------------------------------
(* InMemoryVitalsStore and VitalsRepository (src/api/database.py).          *)

REALTIME_THRESHOLD_MINUTES == 30
TickMinutes == 20

Users == { "user_001", "user_002" }
Clocks == { t * TickMinutes : t \in 0..MaxTicks }
QueryMinutes == { 10, 29, 30, 31 }
QueryHours == { 0, 1, 2 }

NoQuery == [op |-> "none", arg |-> 0, reads |-> {}, result |-> 0]

\* deque(maxlen=max_size).append
RingAppend(ring, e) ==
    IF Len(ring) < RingSize THEN Append(ring, e)
    ELSE Append(SubSeq(ring, 2, Len(ring)), e)

\* InMemoryVitalsStore.get_recent: newest first, stopping at the first event
\* older than the cutoff.
RECURSIVE RingScan(_, _, _, _)
RingScan(ring, i, cutoff, user) ==
    IF i = 0 THEN << >>
    ELSE IF ring[i].ts < cutoff THEN << >>
    ELSE IF ring[i].user = user
           THEN << ring[i] >> \o RingScan(ring, i - 1, cutoff, user)
           ELSE RingScan(ring, i - 1, cutoff, user)

Memory_get_recent(minutes, user) ==
    RingScan(vitals, Len(vitals), clock - minutes, user)

\* InMemoryVitalsStore.get_latest
Memory_get_latest(user) ==
    IF \E i \in 1..Len(vitals) : vitals[i].user = user THEN 1 ELSE 0

\* InMemoryVitalsStore.get_stats: "count" of get_recent
Memory_get_stats(minutes, user) == Len(Memory_get_recent(minutes, user))

\* SELECT ... FROM vitals WHERE user_id = ? AND timestamp > ?
Sqlite_select(cutoff, user) ==
    { r \in sqlite_rows : r.user = user /\ r.ts > cutoff }

RouteRecentStrict(minutes) ==
    IF minutes < REALTIME_THRESHOLD_MINUTES THEN "memory" ELSE "sqlite"

\* VitalsRepository.get_recent: "if minutes <= REALTIME_THRESHOLD_MINUTES"
RouteRecent(minutes) ==
    IF minutes <= REALTIME_THRESHOLD_MINUTES THEN "memory" ELSE "sqlite"

\* VitalsRepository.get_stats: "if hours <= 1"
RouteStats(hours) == IF hours <= 1 THEN "memory" ELSE "sqlite"

InitRouter ==
    /\ vitals = << >>
    /\ sqlite_rows = {}
    /\ clock = 0
    /\ last_query = NoQuery

Tick ==
    /\ clock < MaxTicks * TickMinutes
    /\ clock' = clock + TickMinutes
    /\ UNCHANGED << vitals, sqlite_rows, last_query >>
    /\ UNCHANGED notRouter

\* InMemoryVitalsStore.add of an event of any user and any timestamp so far.
StoreAdd ==
    /\ \E u \in Users, t \in Clocks :
          /\ t <= clock
          /\ vitals' = RingAppend(vitals, [user |-> u, ts |-> t])
    /\ UNCHANGED << sqlite_rows, clock, last_query >>
    /\ UNCHANGED notRouter

\* A row reaches the vitals table (batch flush or bulk insert).
RowPersisted ==
    /\ Cardinality(sqlite_rows) < MaxRows
    /\ \E u \in Users, t \in Clocks :
          /\ t <= clock
          /\ sqlite_rows' = sqlite_rows \cup { [user |-> u, ts |-> t] }
    /\ UNCHANGED << vitals, clock, last_query >>
    /\ UNCHANGED notRouter

\* VitalsRepository.get_recent(minutes, user_id)
Repo_get_recent ==
    /\ \E minutes \in QueryMinutes, u \in Users, ok \in BOOLEAN :
          last_query' =
             IF RouteRecent(minutes) = "memory"
             THEN [op |-> "get_recent", arg |-> minutes, reads |-> { "memory" },
                   result |-> Len(Memory_get_recent(minutes, u))]
             ELSE [op |-> "get_recent", arg |-> minutes, reads |-> { "sqlite" },
                   result |-> IF ok
                              THEN Cardinality(Sqlite_select(clock - minutes, u))
                              ELSE 0]
    /\ UNCHANGED << vitals, sqlite_rows, clock >>
    /\ UNCHANGED notRouter

\* VitalsRepository.get_latest(user_id)
Repo_get_latest ==
    /\ \E u \in Users :
          last_query' = [op |-> "get_latest", arg |-> 0, reads |-> { "memory" },
                         result |-> Memory_get_latest(u)]
    /\ UNCHANGED << vitals, sqlite_rows, clock >>
    /\ UNCHANGED notRouter

\* VitalsRepository.get_stats(hours, user_id); when the store query raises,
\* "return stats" names an unbound variable.
Repo_get_stats ==
    /\ \E hours \in QueryHours, u \in Users, ok \in BOOLEAN :
          last_query' =
             IF RouteStats(hours) = "memory"
             THEN [op |-> "get_stats", arg |-> hours, reads |-> { "memory" },
                   result |-> Memory_get_stats(hours * 60, u)]
             ELSE [op |-> "get_stats", arg |-> hours, reads |-> { "sqlite" },
                   result |-> IF ok
                              THEN Cardinality(Sqlite_select(clock - hours * 60, u))
                              ELSE -1]
    /\ UNCHANGED << vitals, sqlite_rows, clock >>
    /\ UNCHANGED notRouter

NextRouter ==
    \/ Tick
    \/ StoreAdd
    \/ RowPersisted
    \/ Repo_get_recent
    \/ Repo_get_latest
    \/ Repo_get_stats

----------------------------------------------------------------------------
(* SpeedLayerAggregator (src/api/database.py).                              *)

FRESHNESS_WINDOW_MS == 10000
FusionTickMs == 5000

\* The nine aggregatable metrics go through the same loop body, each on its
\* own table; the model carries one of them.
AGGREGATABLE_METRICS == { "heart_rate" }
Sources == { "apple", "google" }
Values == { 72, 98 }
FusionClocks == { k * FusionTickMs : k \in 0..MaxFusionTicks }

NoSource == "none"
Null == -1
NoTimestamp == [kind |-> "absent", at |-> 0]

\* A timestamp string, by what the parser makes of it and the instant it was
\* written for: "naive" is an ISO string without offset, or with Z or +00:00
\* (stripped before parsing); "offset" is an ISO string with another UTC
\* offset, which parses to an aware datetime; "invalid" does not parse (its
\* instant is the moment of arrival).
\* An event is stamped when it arrives or one tick earlier (a late event).
TimestampStrings(nowv) ==
    [kind : { "naive", "offset" },
     at : { nowv - FusionTickMs, nowv } \cap FusionClocks]
        \cup { [kind |-> "invalid", at |-> nowv] }

\* datetime.fromisoformat and the comparison with the naive utcnow(): either
\* raises for a string that does not parse or that yields an aware datetime.
Raises(ts) == ts.kind # "naive"

\* "if ts > cutoff or (now - ts).total_seconds() < FRESHNESS_WINDOW_MS / 1000"
IsFresh(ts, nowv) ==
    \/ ts.at > nowv - FRESHNESS_WINDOW_MS
    \/ nowv - ts.at < FRESHNESS_WINDOW_MS

\* One entry of fresh_readings, or << >> for a stale reading; the except
\* branch takes a reading whose timestamp raised as read right now.
FreshEntry(d, nowv) ==
    IF Raises(d.timestamp)
    THEN << [source |-> d.source, value |-> d.value, timestamp |-> nowv,
             age_ms |-> 0] >>
    ELSE IF IsFresh(d.timestamp, nowv)
    THEN << [source |-> d.source, value |-> d.value,
             timestamp |-> d.timestamp.at, age_ms |-> nowv - d.timestamp.at] >>
    ELSE << >>

\* fresh_readings, in the dict's (insertion) order of the sources.
RECURSIVE FreshReadings(_, _)
FreshReadings(entries, nowv) ==
    IF entries = << >> THEN << >>
    ELSE FreshEntry(Head(entries), nowv) \o FreshReadings(Tail(entries), nowv)

\* Position of x in a list sorted newest first, behind its equals (the sort
\* is stable).
RECURSIVE InsertNewestFirst(_, _)
InsertNewestFirst(sorted, x) ==
    IF sorted = << >> THEN << x >>
    ELSE IF Head(sorted).timestamp >= x.timestamp
    THEN << Head(sorted) >> \o InsertNewestFirst(Tail(sorted), x)
    ELSE << x >> \o sorted

\* fresh_readings.sort(key=lambda x: x["timestamp"], reverse=True)
RECURSIVE SortNewestFirst(_)
SortNewestFirst(readings) ==
    IF readings = << >> THEN << >>
    ELSE InsertNewestFirst(
             SortNewestFirst(SubSeq(readings, 1, Len(readings) - 1)),
             readings[Len(readings)])

\* new_state[metric], for a metric with a fresh reading.
Fused(entries, nowv) ==
    LET fresh_readings == SortNewestFirst(FreshReadings(entries, nowv))
        best == fresh_readings[1]
    IN  [value |-> best.value,
         sources |-> [i \in 1..Len(fresh_readings) |-> fresh_readings[i].source],
         freshness_ms |-> best.age_ms,
         reading_count |-> Len(fresh_readings)]

\* _recompute_aggregated_state
Recompute(latest, nowv) ==
    LET reported == { m \in AGGREGATABLE_METRICS :
                         FreshReadings(latest[m], nowv) # << >> }
    IN  [m \in reported |-> Fused(latest[m], nowv)]

\* self._latest_by_source[metric][source] = {...}: a dict keeps the place of
\* a key it already holds.
PutReading(entries, d) ==
    IF \E i \in 1..Len(entries) : entries[i].source = d.source
    THEN [i \in 1..Len(entries) |->
             IF entries[i].source = d.source THEN d ELSE entries[i]]
    ELSE Append(entries, d)

\* History of the readable timestamps ingested.
Seen(seen, ts, value) ==
    IF ts.kind = "invalid" \/ ts.at < seen.at THEN seen
    ELSE IF ts.at = seen.at THEN [seen EXCEPT !.vals = @ \cup { value }]
    ELSE [at |-> ts.at, vals |-> { value }]

InitFusion ==
    /\ latest_by_source = [m \in AGGREGATABLE_METRICS |-> << >>]
    /\ aggregated_state = << >>
    /\ last_update = 0
    /\ fnow = 0
    /\ newest_seen = [at |-> -1, vals |-> {}]

FusionTick ==
    /\ fnow < MaxFusionTicks * FusionTickMs
    /\ fnow' = fnow + FusionTickMs
    /\ UNCHANGED << latest_by_source, aggregated_state, last_update,
                    newest_seen >>
    /\ UNCHANGED notFusion

\* SpeedLayerAggregator.add_event: an event of a source carrying the metric.
add_event ==
    /\ \E source \in Sources, value \in Values,
          given \in TimestampStrings(fnow) \cup { NoTimestamp } :
          LET timestamp == IF given = NoTimestamp
                           THEN [kind |-> "naive", at |-> fnow] ELSE given
              d == [source |-> source, value |-> value, timestamp |-> timestamp]
              latest == [m \in AGGREGATABLE_METRICS |->
                            PutReading(latest_by_source[m], d)]
          IN  /\ latest_by_source' = latest
              /\ aggregated_state' = Recompute(latest, fnow)
              /\ newest_seen' = Seen(newest_seen, timestamp, value)
    /\ last_update' = fnow
    /\ UNCHANGED fnow
    /\ UNCHANGED notFusion

\* SpeedLayerAggregator.add_event of an event without a source (it returns at
\* once) or without the metric (the table is left alone and recomputed).
add_event_sparse ==
    /\ \E source \in Sources \cup { NoSource } :
          IF source = NoSource
          THEN UNCHANGED << aggregated_state, last_update >>
          ELSE /\ aggregated_state' = Recompute(latest_by_source, fnow)
               /\ last_update' = fnow
    /\ UNCHANGED << latest_by_source, fnow, newest_seen >>
    /\ UNCHANGED notFusion

\* SpeedLayerAggregator.get_aggregated_state
get_aggregated_state ==
    /\ aggregated_state' = Recompute(latest_by_source, fnow)
    /\ last_update' = fnow
    /\ UNCHANGED << latest_by_source, fnow, newest_seen >>
    /\ UNCHANGED notFusion

NextFusion ==
    \/ FusionTick
    \/ add_event
    \/ add_event_sparse
    \/ get_aggregated_state

----------------------------------------------------------------------------
(* The detector: the three MATCH_RECOGNIZE queries of                       *)
(* src/stream-processor/flink_job.py over the biometrics_raw table.         *)
(* A row's ts is its position in its partition (ORDER BY ts).               *)

Patterns == { "TACHYCARDIA_AT_REST", "LOW_SPO2_HYPOXIA", "ELEVATED_TEMPERATURE" }

\* Rows of the source table; a column is Null when the JSON lacks the field.
\* skin_temp_c is in hundredths of a degree.
WatchHot ==
    [event_id |-> 1, heart_rate |-> 101, activity_level |-> 9,
     steps_per_minute |-> 4, spo2_percent |-> 93, skin_temp_c |-> 3751]
WatchCalm ==
    [event_id |-> 1, heart_rate |-> 100, activity_level |-> 9,
     steps_per_minute |-> 4, spo2_percent |-> 94, skin_temp_c |-> 3750]
RingWarm ==
    [event_id |-> 1, heart_rate |-> Null, activity_level |-> Null,
     steps_per_minute |-> Null, spo2_percent |-> Null, skin_temp_c |-> 3751]

Resting120 ==
    [event_id |-> 1, heart_rate |-> 120, activity_level |-> 5,
     steps_per_minute |-> 0, spo2_percent |-> 91, skin_temp_c |-> 3810]
Racing150 ==
    [event_id |-> 1, heart_rate |-> 150, activity_level |-> 5,
     steps_per_minute |-> 0, spo2_percent |-> 88, skin_temp_c |-> 3900]
Recovered80 ==
    [event_id |-> 1, heart_rate |-> 80, activity_level |-> 5,
     steps_per_minute |-> 0, spo2_percent |-> 97, skin_temp_c |-> 3650]

\* What a user's devices send.
UserRows(u) ==
    IF u = "user_001" THEN { WatchHot, WatchCalm, RingWarm }
    ELSE { Resting120, Racing150, Recovered80 }

\* SQL comparisons and connectives: a comparison with NULL is unknown.
Gt(x, c) == IF x = Null THEN "U" ELSE IF x > c THEN "T" ELSE "F"
Ge(x, c) == IF x = Null THEN "U" ELSE IF x >= c THEN "T" ELSE "F"
Lt(x, c) == IF x = Null THEN "U" ELSE IF x < c THEN "T" ELSE "F"
Le(x, c) == IF x = Null THEN "U" ELSE IF x <= c THEN "T" ELSE "F"
And3(a, b) ==
    IF a = "F" \/ b = "F" THEN "F" ELSE IF a = "T" /\ b = "T" THEN "T" ELSE "U"
Or3(a, b) ==
    IF a = "T" \/ b = "T" THEN "T" ELSE IF a = "F" /\ b = "F" THEN "F" ELSE "U"

\* DEFINE A: a row is an A when the condition is true (not unknown).
DefineA(p, row) ==
    "T" = CASE p = "TACHYCARDIA_AT_REST" ->
                 And3(And3(Gt(row.heart_rate, 100), Lt(row.activity_level, 10)),
                      Lt(row.steps_per_minute, 5))
            [] p = "LOW_SPO2_HYPOXIA" -> Lt(row.spo2_percent, 94)
            [] p = "ELEVATED_TEMPERATURE" -> Gt(row.skin_temp_c, 3750)

\* DEFINE B
DefineB(p, row) ==
    "T" = CASE p = "TACHYCARDIA_AT_REST" ->
                 Or3(Or3(Le(row.heart_rate, 100), Ge(row.activity_level, 10)),
                     Ge(row.steps_per_minute, 5))
            [] p = "LOW_SPO2_HYPOXIA" -> Ge(row.spo2_percent, 94)
            [] p = "ELEVATED_TEMPERATURE" -> Le(row.skin_temp_c, 3750)

MinRunShort(p) == IF p = "TACHYCARDIA_AT_REST" THEN 4 ELSE 2
MinRunLong(p) == IF p = "TACHYCARDIA_AT_REST" THEN 6 ELSE 4

\* The quantifier of PATTERN (A{n,}? B)
MinRun(p) == IF p = "TACHYCARDIA_AT_REST" THEN 5 ELSE 3

SkipToNextRow(first, last_row) == first + 1

\* AFTER MATCH SKIP PAST LAST ROW: where the next match may start, after a
\* match that began at row first and ended with row last_row (its B).
AfterMatchSkip(first, last_row) == last_row + 1

\* The rows at which a match of A{n,}? B ends with the partition's last row:
\* the last row is the B, every row from the start to the one before it is an
\* A (B never holds of an A row, so the reluctant quantifier still takes the
\* whole run), and there are at least n of them.
MatchStarts(p, part, from) ==
    LET e == Len(part)
    IN  IF ~DefineB(p, part[e]) THEN {}
        ELSE { s \in from..(e - 1) :
                  /\ e - s >= MinRun(p)
                  /\ \A i \in s..(e - 1) : DefineA(p, part[i]) }

Earliest(S) == CHOOSE s \in S : \A t \in S : s <= t

\* The matches emitted when the partition's last row arrives, by their first
\* row: the earliest one, then those the skip strategy leaves.
RECURSIVE Matches(_, _, _)
Matches(p, part, from) ==
    LET S == MatchStarts(p, part, from)
    IN  IF S = {} THEN {}
        ELSE { Earliest(S) }
                 \cup Matches(p, part, AfterMatchSkip(Earliest(S), Len(part)))

\* Where matching resumes once those matches are emitted.
RECURSIVE Resume(_, _, _)
Resume(p, part, from) ==
    LET S == MatchStarts(p, part, from)
    IN  IF S = {} THEN from
        ELSE Resume(p, part, AfterMatchSkip(Earliest(S), Len(part)))

\* COUNT(A.event_id): the A rows of the match whose event_id is not NULL.
CountEventIds(part, first, last) ==
    Cardinality({ i \in first..last : part[i].event_id # Null })

\* The column a query averages.
Measured(p, row) ==
    CASE p = "TACHYCARDIA_AT_REST" -> row.heart_rate
      [] p = "LOW_SPO2_HYPOXIA" -> row.spo2_percent
      [] p = "ELEVATED_TEMPERATURE" -> row.skin_temp_c

RECURSIVE SumMeasured(_, _, _, _)
SumMeasured(p, part, first, last) ==
    IF first > last THEN 0
    ELSE (IF Measured(p, part[last]) = Null THEN 0 ELSE Measured(p, part[last]))
             + SumMeasured(p, part, first, last - 1)

AvgThroughB(p, part, first, last) ==
    [sum |-> SumMeasured(p, part, first, last + 1),
     of |-> Cardinality({ i \in first..(last + 1) : Measured(p, part[i]) # Null })]

\* AVG(A.<column>) over the A rows first..last of the match, as the fraction
\* sum / of; AVG skips NULLs.
Avg(p, part, first, last) ==
    [sum |-> SumMeasured(p, part, first, last),
     of |-> Cardinality({ i \in first..last : Measured(p, part[i]) # Null })]

\* The CASE of the SELECT list; avg > c is sum > c * of.
Severity(p, avg) ==
    CASE p = "TACHYCARDIA_AT_REST" ->
             IF avg.sum > 130 * avg.of THEN "CRITICAL"
             ELSE IF avg.sum > 115 * avg.of THEN "HIGH" ELSE "MEDIUM"
      [] p = "LOW_SPO2_HYPOXIA" ->
             IF avg.sum < 90 * avg.of THEN "CRITICAL"
             ELSE IF avg.sum < 92 * avg.of THEN "HIGH" ELSE "MEDIUM"
      [] p = "ELEVATED_TEMPERATURE" ->
             IF avg.sum > 3850 * avg.of THEN "CRITICAL"
             ELSE IF avg.sum > 3800 * avg.of THEN "HIGH" ELSE "MEDIUM"

AlertRowThroughB(p, u, part, first) ==
    [alert_type |-> p, user_id |-> u,
     severity |-> Severity(p, Avg(p, part, first, Len(part) - 1)),
     start_time |-> first, end_time |-> Len(part),
     avg_heart_rate |-> Avg(p, part, first, Len(part) - 1),
     event_count |-> CountEventIds(part, first, Len(part) - 1)]

\* MEASURES ... ONE ROW PER MATCH and the SELECT list, for the match of rows
\* first..Len(part).
AlertRow(p, u, part, first) ==
    [alert_type |-> p, user_id |-> u,
     severity |-> Severity(p, Avg(p, part, first, Len(part) - 1)),
     start_time |-> first, end_time |-> Len(part) - 1,
     avg_heart_rate |-> Avg(p, part, first, Len(part) - 1),
     event_count |-> CountEventIds(part, first, Len(part) - 1)]

RECURSIVE TotalRows(_, _)
TotalRows(r, us) ==
    IF us = {} THEN 0
    ELSE LET u == CHOOSE x \in us : TRUE
         IN  Len(r[u]) + TotalRows(r, us \ { u })

InitDetector ==
    /\ rows = [u \in Users |-> << >>]
    /\ skip_to = [q \in Patterns \X Users |-> 1]
    /\ alerts = EmptyBag

\* A row of a user reaches the three queries, in ts order within the
\* partition; each query emits the matches the row completes.
RowArrives ==
    /\ TotalRows(rows, Users) < MaxStream
    /\ \E u \in Users : \E row \in UserRows(u) :
          LET part == Append(rows[u], row)
              emitted == UNION { { AlertRow(p, u, part, s) :
                                      s \in Matches(p, part, skip_to[<< p, u >>]) } :
                                 p \in Patterns }
          IN  /\ rows' = [rows EXCEPT ![u] = part]
              /\ alerts' = alerts (+) SetToBag(emitted)
              /\ skip_to' = [q \in Patterns \X Users |->
                                IF q[2] = u THEN Resume(q[1], part, skip_to[q])
                                ELSE skip_to[q]]
    /\ UNCHANGED notDetector

NextDetector == RowArrives

----------------------------------------------------------------------------
(* Event time of biometrics_raw (create_kafka_source_ddl): the watermark    *)
(* declared on ts and what the MATCH_RECOGNIZE operator does with it, for   *)
(* one partition.  Times are in seconds.                                    *)

WatermarkDelay == 5
NoWatermark == -1

EventTimes == 0..MaxEventTime

NoDelay(newest) == newest

\* WATERMARK FOR ts AS ts - INTERVAL '5' SECOND, of the greatest ts seen.
WatermarkFor(newest) == newest - WatermarkDelay

\* The arrival numbers in a set, by ts (ORDER BY ts), equal ts by arrival.
RECURSIVE InTsOrder(_, _)
InTsOrder(arrived, S) ==
    IF S = {} THEN << >>
    ELSE LET i == CHOOSE x \in S :
                      \A y \in S : \/ arrived[x].ts < arrived[y].ts
                                   \/ arrived[x].ts = arrived[y].ts /\ x <= y
         IN  << i >> \o InTsOrder(arrived, S \ { i })

InitWatermark ==
    /\ arrivals = << >>
    /\ max_ts = NoWatermark
    /\ watermark = NoWatermark
    /\ cep_buffer = {}
    /\ considered = << >>
    /\ ignored = {}

\* A row is read: the generator notes its ts, and the operator buffers the
\* row unless its ts is not after the watermark it holds (a late row).
SourceRow ==
    /\ Len(arrivals) < MaxArrivals
    /\ \E ts \in EventTimes :
          LET n == Len(arrivals) + 1
          IN  /\ arrivals' = Append(arrivals,
                                    [ts |-> ts,
                                     behind |-> IF max_ts > ts THEN max_ts - ts
                                                ELSE 0])
              /\ max_ts' = IF ts > max_ts THEN ts ELSE max_ts
              /\ IF ts > watermark
                 THEN cep_buffer' = cep_buffer \cup { n } /\ UNCHANGED ignored
                 ELSE ignored' = ignored \cup { n } /\ UNCHANGED cep_buffer
    /\ UNCHANGED << watermark, considered >>
    /\ UNCHANGED notWatermark

\* The periodic watermark reaches the operator, which hands the buffered rows
\* it covers to the patterns in ts order.
EmitWatermark ==
    /\ max_ts # NoWatermark
    /\ WatermarkFor(max_ts) > watermark
    /\ watermark' = WatermarkFor(max_ts)
    /\ LET due == { i \in cep_buffer : arrivals[i].ts <= watermark' }
       IN  /\ considered' = considered \o InTsOrder(arrivals, due)
           /\ cep_buffer' = cep_buffer \ due
    /\ UNCHANGED << arrivals, max_ts, ignored >>
    /\ UNCHANGED notWatermark

NextWatermark ==
    \/ SourceRow
    \/ EmitWatermark

----------------------------------------------------------------------------
(* MultiSourceKafkaConsumer and MessageBuffer (src/api/kafka_consumer.py)   *)
(* with the ConnectionManager of src/api/main.py: one source's consumer     *)
(* thread, the alerts consumer, and the coroutines they schedule on the     *)
(* event loop.                                                              *)

Connections == { "ws1", "ws2" }
Callbacks == { "broadcast", "alert_callback" }

VitalMessage(n) == [type |-> "vital", n |-> n]
AlertMessage(n) == [type |-> "alert", n |-> n]
EnrichedMessage(n) == [type |-> "alert_enriched", n |-> n]

Oldest(list, count) == SubSeq(list, 1, Min(count, Len(list)))

\* list[-count:]
Recent(list, count) ==
    SubSeq(list, Len(list) - Min(count, Len(list)) + 1, Len(list))

\* MessageBuffer.add_message: append, and pop(0) over the maximum.
Buffered(list, message, maximum) ==
    IF Len(list) + 1 > maximum THEN Tail(Append(list, message))
    ELSE Append(list, message)

\* An initial state read before the newest message was buffered (a snapshot
\* taken ahead of a suspension of connect).
StaleInitialState(vitals_list, alerts_list, stats) ==
    [type |-> "initial_state",
     vitals |-> Recent(SubSeq(vitals_list, 1, Len(vitals_list) - 1),
                       InitialVitals),
     alerts |-> Recent(SubSeq(alerts_list, 1, Len(alerts_list) - 1),
                       InitialAlerts),
     source_stats |-> stats]

\* MessageBuffer.get_initial_state
get_initial_state(vitals_list, alerts_list, stats) ==
    [type |-> "initial_state",
     vitals |-> Recent(vitals_list, InitialVitals),
     alerts |-> Recent(alerts_list, InitialAlerts),
     source_stats |-> stats]

\* The coroutine run_coroutine_threadsafe schedules for a message.
NewTask(message) ==
    [message |-> message, pc |-> "scheduled", callbacks |-> << >>,
     failed |-> {}, waiting |-> {}, timed_out |-> FALSE]

\* The coroutine has returned: nothing of its frame is left.
Done(task) == [NewTask(task.message) EXCEPT !.pc = "done"]

NoEnrich == [pc |-> "none", todo |-> {}, size |-> 0]

\* The callback runs after broadcast in this iteration order of the set.
AlertCallbackLast(cbs) == Len(cbs) = 2 /\ cbs[2] = "alert_callback"
AlertCallbackFirst(cbs) == Len(cbs) = 2 /\ cbs[1] = "alert_callback"

InitDispatch ==
    /\ source_enabled = TRUE
    /\ worker_pc = "check"
    /\ consumed = 0
    /\ alerts_consumed = 0
    /\ message_callbacks = << "broadcast" >>
    /\ tasks = << >>
    /\ enrich = [n \in 1..MaxAlertMessages |-> NoEnrich]
    /\ active_connections = {}
    /\ health = [c \in Connections |-> "new"]
    /\ outbox = [c \in Connections |-> << >>]
    /\ mb_vitals = << >>
    /\ mb_alerts = << >>
    /\ source_stats = 0
    /\ invoked = [cb \in Callbacks |-> << >>]
    /\ added = [vital |-> << >>, alert |-> << >>]
    /\ failed_sends = {}

\* disable_source / enable_source (the /sources endpoints call them).
disable_source ==
    /\ source_enabled
    /\ source_enabled' = FALSE
    /\ UNCHANGED << worker_pc, consumed, alerts_consumed, message_callbacks,
                    tasks, enrich, active_connections, health, outbox,
                    mb_vitals, mb_alerts, source_stats, invoked, added,
                    failed_sends >>
    /\ UNCHANGED notDispatch

enable_source ==
    /\ ~source_enabled
    /\ source_enabled' = TRUE
    /\ UNCHANGED << worker_pc, consumed, alerts_consumed, message_callbacks,
                    tasks, enrich, active_connections, health, outbox,
                    mb_vitals, mb_alerts, source_stats, invoked, added,
                    failed_sends >>
    /\ UNCHANGED notDispatch

\* _source_consume_loop: the enabled test under the lock; a disabled source
\* sleeps and tests again.
WorkerCheck ==
    /\ worker_pc = "check"
    /\ worker_pc' = IF source_enabled THEN "poll" ELSE "check"
    /\ UNCHANGED << source_enabled, consumed, alerts_consumed,
                    message_callbacks, tasks, enrich, active_connections,
                    health, outbox, mb_vitals, mb_alerts, source_stats,
                    invoked, added, failed_sends >>
    /\ UNCHANGED notDispatch

\* _source_consume_loop: consumer.poll returns a message, which is scheduled
\* on the event loop.
WorkerPoll ==
    /\ worker_pc = "poll"
    /\ consumed < MaxVitalMessages
    /\ consumed' = consumed + 1
    /\ tasks' = Append(tasks, NewTask(VitalMessage(consumed + 1)))
    /\ worker_pc' = "check"
    /\ UNCHANGED << source_enabled, alerts_consumed, message_callbacks, enrich,
                    active_connections, health, outbox, mb_vitals, mb_alerts,
                    source_stats, invoked, added, failed_sends >>
    /\ UNCHANGED notDispatch

\* _source_consume_loop: consumer.poll returns None after its timeout.
WorkerPollNone ==
    /\ worker_pc = "poll"
    /\ worker_pc' = "check"
    /\ UNCHANGED << source_enabled, consumed, alerts_consumed,
                    message_callbacks, tasks, enrich, active_connections,
                    health, outbox, mb_vitals, mb_alerts, source_stats,
                    invoked, added, failed_sends >>
    /\ UNCHANGED notDispatch

\* _alerts_consume_loop: an alert is polled and scheduled.
AlertsPoll ==
    /\ alerts_consumed < MaxAlertMessages
    /\ alerts_consumed' = alerts_consumed + 1
    /\ tasks' = Append(tasks, NewTask(AlertMessage(alerts_consumed + 1)))
    /\ UNCHANGED << source_enabled, worker_pc, consumed, message_callbacks,
                    enrich, active_connections, health, outbox, mb_vitals,
                    mb_alerts, source_stats, invoked, added, failed_sends >>
    /\ UNCHANGED notDispatch

\* websocket_alerts: a client of /ws/alerts registers its alert_callback; the
\* set of callbacks iterates in either order.
websocket_alerts ==
    /\ Len(message_callbacks) = 1
    /\ message_callbacks' \in { << "broadcast", "alert_callback" >>,
                                << "alert_callback", "broadcast" >> }
    /\ UNCHANGED << source_enabled, worker_pc, consumed, alerts_consumed,
                    tasks, enrich, active_connections, health, outbox,
                    mb_vitals, mb_alerts, source_stats, invoked, added,
                    failed_sends >>
    /\ UNCHANGED notDispatch

\* ConnectionManager.connect: accept, register, send the initial state.
connect ==
    /\ \E c \in Connections :
          /\ health[c] = "new"
          /\ health' = [health EXCEPT ![c] = "ok"]
          /\ active_connections' = active_connections \cup { c }
          /\ outbox' = [outbox EXCEPT ![c] =
                           Append(@, get_initial_state(mb_vitals, mb_alerts,
                                                       source_stats))]
    /\ UNCHANGED << source_enabled, worker_pc, consumed, alerts_consumed,
                    message_callbacks, tasks, enrich, mb_vitals, mb_alerts,
                    source_stats, invoked, added, failed_sends >>
    /\ UNCHANGED notDispatch

\* ConnectionManager.disconnect, when the client closes.
disconnect ==
    /\ \E c \in active_connections :
          /\ active_connections' = active_connections \ { c }
          /\ health' = [health EXCEPT ![c] = "closed"]
    /\ UNCHANGED << source_enabled, worker_pc, consumed, alerts_consumed,
                    message_callbacks, tasks, enrich, outbox, mb_vitals,
                    mb_alerts, source_stats, invoked, added, failed_sends >>
    /\ UNCHANGED notDispatch

\* A client's socket starts to fail its sends, or to block them.
ConnectionDegrades ==
    /\ \E c \in Connections :
          /\ health[c] = "ok"
          /\ \E h \in { "broken", "blocked" } :
                health' = [health EXCEPT ![c] = h]
    /\ UNCHANGED << source_enabled, worker_pc, consumed, alerts_consumed,
                    message_callbacks, tasks, enrich, active_connections,
                    outbox, mb_vitals, mb_alerts, source_stats, invoked,
                    added, failed_sends >>
    /\ UNCHANGED notDispatch

\* _dispatch_message up to its first suspension: the callbacks ahead of
\* broadcast, then ConnectionManager.broadcast up to its gather (it returns
\* without suspending when there is no connection).  Coroutines start in the
\* order they were scheduled.
TaskStart ==
    /\ \E i \in 1..Len(tasks) :
          /\ tasks[i].pc = "scheduled"
          /\ \A j \in 1..(i - 1) : tasks[j].pc # "scheduled"
          /\ LET message == tasks[i].message
                 cbs == message_callbacks
                 suspends == active_connections # {}
                 calls_alert == \/ AlertCallbackFirst(cbs)
                                \/ AlertCallbackLast(cbs) /\ ~suspends
             IN  /\ tasks' = [tasks EXCEPT ![i] =
                        IF suspends
                        THEN [@ EXCEPT !.pc = "gathering",
                                       !.callbacks = cbs,
                                       !.failed = { c \in active_connections :
                                                       health[c] = "broken" },
                                       !.waiting = { c \in active_connections :
                                                        health[c] = "blocked" }]
                        ELSE Done(@)]
                 /\ invoked' = [invoked EXCEPT
                        !["broadcast"] = Append(@, message),
                        !["alert_callback"] =
                            IF calls_alert THEN Append(@, message) ELSE @]
                 /\ added' = [added EXCEPT ![message.type] = Append(@, message)]
                 /\ IF message.type = "vital"
                    THEN /\ mb_vitals' = Buffered(mb_vitals, message, max_vitals)
                         /\ source_stats' = source_stats + 1
                         /\ UNCHANGED << mb_alerts, enrich >>
                    ELSE /\ mb_alerts' = Buffered(mb_alerts, message, max_alerts)
                         /\ enrich' = [enrich EXCEPT ![message.n].pc = "agent"]
                         /\ UNCHANGED << mb_vitals, source_stats >>
                 /\ outbox' = [c \in Connections |->
                        IF c \in active_connections /\ health[c] = "ok"
                        THEN Append(outbox[c], message) ELSE outbox[c]]
    /\ UNCHANGED << source_enabled, worker_pc, consumed, alerts_consumed,
                    message_callbacks, active_connections, health,
                    failed_sends >>
    /\ UNCHANGED notDispatch

\* asyncio.wait_for gives up a blocked send after 1 s; the timers fire in the
\* order the broadcasts started, and a coroutine already scheduled has
\* started by then.
SendTimesOut ==
    /\ \A j \in 1..Len(tasks) : tasks[j].pc # "scheduled"
    /\ \E i \in 1..Len(tasks) :
          /\ tasks[i].pc = "gathering"
          /\ tasks[i].waiting # {}
          /\ ~tasks[i].timed_out
          /\ \A j \in 1..(i - 1) :
                (tasks[j].pc = "gathering" /\ tasks[j].waiting # {})
                    => tasks[j].timed_out
          /\ tasks' = [tasks EXCEPT ![i].timed_out = TRUE]
    /\ UNCHANGED << source_enabled, worker_pc, consumed, alerts_consumed,
                    message_callbacks, enrich, active_connections, health,
                    outbox, mb_vitals, mb_alerts, source_stats, invoked, added,
                    failed_sends >>
    /\ UNCHANGED notDispatch

\* broadcast resumes from its gather and discards the connections whose send
\* failed or timed out; _dispatch_message goes on to the callbacks after it.
\* Broadcasts none of whose sends block resume in the order they started.
TaskFinish ==
    /\ \E i \in 1..Len(tasks) :
          /\ tasks[i].pc = "gathering"
          /\ tasks[i].waiting = {} \/ tasks[i].timed_out
          /\ \A j \in 1..(i - 1) :
                tasks[j].pc = "gathering" => tasks[j].waiting # {}
          /\ tasks' = [tasks EXCEPT ![i] = Done(@)]
          /\ active_connections' =
                 active_connections \ (tasks[i].failed \cup tasks[i].waiting)
          /\ failed_sends' =
                 failed_sends \cup tasks[i].failed \cup tasks[i].waiting
          /\ invoked' = [invoked EXCEPT !["alert_callback"] =
                            IF AlertCallbackLast(tasks[i].callbacks)
                            THEN Append(@, tasks[i].message) ELSE @]
    /\ UNCHANGED << source_enabled, worker_pc, consumed, alerts_consumed,
                    message_callbacks, enrich, health, outbox, mb_vitals,
                    mb_alerts, source_stats, added >>
    /\ UNCHANGED notDispatch

\* _enrich_alert: the agent answers, with an insight or without one.
EnrichInsight ==
    /\ \E n \in 1..MaxAlertMessages :
          /\ enrich[n].pc = "agent"
          /\ \E insight \in BOOLEAN :
                enrich' = [enrich EXCEPT ![n] =
                    IF insight
                    THEN [pc |-> "loop", todo |-> active_connections,
                          size |-> Cardinality(active_connections)]
                    ELSE [NoEnrich EXCEPT !.pc = "done"]]
    /\ UNCHANGED << source_enabled, worker_pc, consumed, alerts_consumed,
                    message_callbacks, tasks, active_connections, health,
                    outbox, mb_vitals, mb_alerts, source_stats, invoked, added,
                    failed_sends >>
    /\ UNCHANGED notDispatch

\* _enrich_alert: one turn of "for connection in self.active_connections".
\* The set's iterator raises once the set has changed size, which ends the
\* task; a send that raises is passed over; a send that blocks is awaited
\* without a timeout.
EnrichSend ==
    /\ \E n \in 1..MaxAlertMessages :
          /\ enrich[n].pc = "loop"
          /\ IF Cardinality(active_connections) # enrich[n].size
                \/ enrich[n].todo = {}
             THEN /\ enrich' = [enrich EXCEPT
                                     ![n] = [NoEnrich EXCEPT !.pc = "done"]]
                  /\ UNCHANGED << outbox, failed_sends >>
             ELSE \E c \in enrich[n].todo :
                     /\ enrich' = [enrich EXCEPT
                            ![n].todo = @ \ { c },
                            ![n].pc = IF health[c] = "blocked"
                                      THEN "blocked" ELSE "loop"]
                     /\ outbox' = [outbox EXCEPT ![c] =
                            IF health[c] = "ok"
                            THEN Append(@, EnrichedMessage(n)) ELSE @]
                     /\ failed_sends' =
                            IF health[c] = "broken"
                            THEN failed_sends \cup { c } ELSE failed_sends
    /\ UNCHANGED << source_enabled, worker_pc, consumed, alerts_consumed,
                    message_callbacks, tasks, active_connections, health,
                    mb_vitals, mb_alerts, source_stats, invoked, added >>
    /\ UNCHANGED notDispatch

\* The consumer: its source worker, the enable switch, the listeners and
\* the coroutines it schedules, with clients that come and go.
NextDispatch ==
    \/ disable_source
    \/ enable_source
    \/ WorkerCheck
    \/ WorkerPoll
    \/ WorkerPollNone
    \/ websocket_alerts
    \/ connect
    \/ disconnect
    \/ TaskStart
    \/ TaskFinish

\* The replay buffer: vitals and alerts are buffered as they are broadcast,
\* and clients connect at any moment of the stream.
NextReplay ==
    \/ WorkerCheck
    \/ WorkerPoll
    \/ AlertsPoll
    \/ connect
    \/ disconnect
    \/ TaskStart
    \/ TaskFinish

\* The ConnectionManager: broadcasts of vitals and alerts to clients whose
\* sockets may fail or block, and the enrichment of alerts.  Clients leave
\* here only by being discarded.
NextManager ==
    \/ WorkerCheck
    \/ WorkerPoll
    \/ AlertsPoll
    \/ connect
    \/ ConnectionDegrades
    \/ TaskStart
    \/ SendTimesOut
    \/ TaskFinish
    \/ EnrichInsight
    \/ EnrichSend

----------------------------------------------------------------------------
(* The SQLite tables (src/api/database.py): vitals, written by               *)
(* BatchWriteBuffer.flush and VitalsRepository.bulk_insert_vitals, and       *)
(* alerts, written by AlertsRepository.                                      *)

AlertIds == { "a1", "a2" }
Severities == { "HIGH", "CRITICAL" }
NoInsight == "none"

\* The events and alerts handed to the store; an event_id or alert_id may
\* come again, with the same content or with another.
StoredEvents ==
    { [event_id |-> "e1", heart_rate |-> 72],
      [event_id |-> "e1", heart_rate |-> 98],
      [event_id |-> "e2", heart_rate |-> 72] }
StoredAlerts == [alert_id : AlertIds, severity : Severities]
EventBatches == UNION { [1..n -> StoredEvents] : n \in 1..MaxBatchLen }

\* INSERT INTO vitals with no conflict clause.
InsertVital(db, event, nowv) ==
    [rows |-> db.rows \cup
                { [id |-> db.seq + 1, event_id |-> event.event_id,
                   heart_rate |-> event.heart_rate, wellness_score |-> Null,
                   created_at |-> nowv] },
     seq |-> db.seq + 1]

\* INSERT OR REPLACE INTO vitals: the row in conflict on the UNIQUE event_id
\* is deleted; the new row takes the next AUTOINCREMENT id, and the columns
\* the statement does not list take their defaults.
InsertOrReplaceVital(db, event, nowv) ==
    [rows |-> { r \in db.rows : r.event_id # event.event_id } \cup
                { [id |-> db.seq + 1, event_id |-> event.event_id,
                   heart_rate |-> event.heart_rate, wellness_score |-> Null,
                   created_at |-> nowv] },
     seq |-> db.seq + 1]

\* executemany over data_tuples, in order.
RECURSIVE executemany(_, _, _)
executemany(db, batch, nowv) ==
    IF batch = << >> THEN db
    ELSE executemany(InsertOrReplaceVital(db, Head(batch), nowv),
                     Tail(batch), nowv)

\* INSERT INTO alerts with no conflict clause.
InsertAlert(db, alert, nowv) ==
    [rows |-> db.rows \cup
                { [id |-> db.seq + 1, alert_id |-> alert.alert_id,
                   severity |-> alert.severity, ai_insight |-> NoInsight,
                   resolved |-> FALSE, created_at |-> nowv] },
     seq |-> db.seq + 1]

\* INSERT OR REPLACE INTO alerts, on the UNIQUE alert_id; ai_insight is
\* alert_data.get("ai_insight"), which the emitted alert does not carry.
InsertOrReplaceAlert(db, alert, nowv) ==
    [rows |-> { r \in db.rows : r.alert_id # alert.alert_id } \cup
                { [id |-> db.seq + 1, alert_id |-> alert.alert_id,
                   severity |-> alert.severity, ai_insight |-> NoInsight,
                   resolved |-> FALSE, created_at |-> nowv] },
     seq |-> db.seq + 1]

\* The columns of the vitals rows that come from the events.
VitalFields(db) ==
    { [event_id |-> r.event_id, heart_rate |-> r.heart_rate,
       wellness_score |-> r.wellness_score] : r \in db.rows }

\* The events of a batch are in the table as the batch has them.
InTable(db, batch) ==
    \A k \in 1..Len(batch) :
        [event_id |-> batch[k].event_id, heart_rate |-> batch[k].heart_rate,
         wellness_score |-> Null] \in VitalFields(db)

InitStore ==
    /\ vitals_db = [rows |-> {}, seq |-> 0]
    /\ alerts_db = [rows |-> {}, seq |-> 0]
    /\ db_now = 0
    /\ flush_retry = << >>
    /\ vitals_again = FALSE
    /\ alert_ids = {}
    /\ alerts_again = FALSE
    /\ insight_ids = {}

\* BatchWriteBuffer.flush, as the table sees it: the batch is the one put
\* back by the flush that failed, if there is one.  The write is committed,
\* or an exception ends it before the commit and the connection closes with
\* nothing written, or an exception is raised after the commit; on an
\* exception the batch is put back at the head of the buffer.
StoreFlush ==
    /\ db_now < MaxStatements
    /\ db_now' = db_now + 1
    /\ \E batch \in IF flush_retry # << >> THEN { flush_retry }
                    ELSE EventBatches :
          \E outcome \in { "committed", "raised", "raised_after_commit" } :
             /\ vitals_db' = IF outcome = "raised" THEN vitals_db
                             ELSE executemany(vitals_db, batch, db_now + 1)
             /\ flush_retry' = IF outcome = "committed" THEN << >> ELSE batch
             /\ vitals_again' = (vitals_again \/
                                   (outcome # "raised" /\ InTable(vitals_db, batch)))
    /\ UNCHANGED << alerts_db, alert_ids, alerts_again, insight_ids >>
    /\ UNCHANGED notStore

\* VitalsRepository.bulk_insert_vitals with a list of one batch: executemany
\* and commit, or an exception that leaves the batch out.
bulk_insert_vitals ==
    /\ db_now < MaxStatements
    /\ db_now' = db_now + 1
    /\ \E batch \in EventBatches : \E inserted \in BOOLEAN :
          /\ vitals_db' = IF inserted
                          THEN executemany(vitals_db, batch, db_now + 1)
                          ELSE vitals_db
          /\ vitals_again' = (vitals_again \/
                                (inserted /\ InTable(vitals_db, batch)))
    /\ UNCHANGED << alerts_db, flush_retry, alert_ids, alerts_again,
                    insight_ids >>
    /\ UNCHANGED notStore

\* AlertsRepository.insert (ConnectionManager._store_alert calls it for each
\* alert consumed): True with the row written, False on an exception.
AlertsRepository_insert ==
    /\ db_now < MaxAlertStatements
    /\ db_now' = db_now + 1
    /\ \E alert \in StoredAlerts : \E inserted \in BOOLEAN :
          /\ alerts_db' = IF inserted
                          THEN InsertOrReplaceAlert(alerts_db, alert, db_now + 1)
                          ELSE alerts_db
          /\ alert_ids' = IF inserted THEN alert_ids \cup { alert.alert_id }
                          ELSE alert_ids
          /\ alerts_again' = (alerts_again \/
                                (inserted /\ alert.alert_id \in alert_ids))
    /\ UNCHANGED << vitals_db, flush_retry, vitals_again, insight_ids >>
    /\ UNCHANGED notStore

\* AlertsRepository.update_insight: UPDATE alerts SET ai_insight.
update_insight ==
    /\ db_now < MaxAlertStatements
    /\ db_now' = db_now + 1
    /\ \E alert_id \in AlertIds :
          /\ alerts_db' = [alerts_db EXCEPT !.rows =
                 { IF r.alert_id = alert_id
                   THEN [r EXCEPT !.ai_insight = "insight"] ELSE r : r \in @ }]
          /\ insight_ids' = insight_ids \cup { alert_id }
    /\ UNCHANGED << vitals_db, flush_retry, vitals_again, alert_ids,
                    alerts_again >>
    /\ UNCHANGED notStore

\* The writers of the vitals table.
NextStore ==
    \/ StoreFlush
    \/ bulk_insert_vitals

\* The writers of the alerts table.
NextAlertStore ==
    \/ AlertsRepository_insert
    \/ update_insight

----------------------------------------------------------------------------
(* InMemoryVitalsStore (src/api/database.py), the ring of the latest vitals *)
(* with its in-memory baseline, and the user_baselines table that           *)
(* BaselinesRepository reads.                                               *)

MIN_DATA_POINTS == 10
NoEvent == [user |-> "none", seq |-> 0]

\* deque(maxlen).append with the whole deque kept: no event is dropped.
AppendUnbounded(deque, e) == Append(deque, e)

\* deque(maxlen=max_size).append: the oldest event falls off a full deque.
DequeAppend(deque, e) == RingAppend(deque, e)

\* InMemoryVitalsStore.get_latest: the first event of the user met from the
\* tail, None when there is none.
RECURSIVE get_latest(_, _, _)
get_latest(deque, i, user) ==
    IF i = 0 THEN NoEvent
    ELSE IF deque[i].user = user THEN deque[i]
    ELSE get_latest(deque, i - 1, user)

InitRing ==
    /\ hot_ring = << >>
    /\ baseline_data = [u \in Users |-> 0]
    /\ user_baselines = [u \in Users |-> 0]
    /\ appended = << >>
    /\ latest_got = [user |-> "none", result |-> NoEvent]
    /\ deviation = [user |-> "none", data_points |-> 0, checked |-> FALSE]

\* ConnectionManager.broadcast of a vital, as far as these structures go:
\* InMemoryVitalsStore.add appends the event and _update_baseline counts it
\* in _baseline_data.  Nothing on this path, nor anywhere else, calls
\* BaselinesRepository.update or auto_update_baseline: the table is left as
\* it is.
vitals_store_add ==
    /\ Len(appended) < MaxAppends
    /\ \E u \in Users :
          /\ hot_ring' = DequeAppend(hot_ring,
                                     [user |-> u, seq |-> Len(appended) + 1])
          /\ baseline_data' = [baseline_data EXCEPT ![u] = @ + 1]
          /\ appended' = Append(appended, u)
    /\ UNCHANGED << user_baselines, latest_got, deviation >>
    /\ UNCHANGED notRing

\* VitalsRepository.get_latest -> InMemoryVitalsStore.get_latest
vitals_store_get_latest ==
    /\ \E u \in Users :
          latest_got' = [user |-> u,
                         result |-> get_latest(hot_ring, Len(hot_ring), u)]
    /\ UNCHANGED << hot_ring, baseline_data, user_baselines, appended,
                    deviation >>
    /\ UNCHANGED notRing

\* BaselinesRepository.get_deviation_alert: the baseline is the row of
\* user_baselines; without a row, or with fewer than 10 data points, the
\* check returns None before it compares anything.
get_deviation_alert ==
    /\ \E u \in Users :
          deviation' = [user |-> u, data_points |-> user_baselines[u],
                        checked |-> user_baselines[u] >= MIN_DATA_POINTS]
    /\ UNCHANGED << hot_ring, baseline_data, user_baselines, appended,
                    latest_got >>
    /\ UNCHANGED notRing

NextRing ==
    \/ vitals_store_add
    \/ vitals_store_get_latest
    \/ get_deviation_alert

----------------------------------------------------------------------------
(* GroundTruthState (src/data-generator/ground_truth.py) and the           *)
(* inject_anomaly of MultiSourceProducer (src/data-generator/producer.py). *)
(* Time is in whole seconds; the physiological values are in tenths of     *)
(* their unit (heart_rate 700 is 70.0 bpm, skin_temp_c 365 is 36.5 C), so  *)
(* the rounding of get_current_state to one decimal keeps them.            *)

Max(a, b) == IF a > b THEN a ELSE b

\* The catalog of schemas.py, ranges in tenths.
ANOMALY_PATTERNS ==
    [ tachycardia_at_rest |->
          [heart_rate |-> << 1100, 1400 >>, activity_level |-> << 0, 80 >>,
           steps_per_minute |-> << 0, 30 >>, hrv_ms |-> << 200, 350 >>],
      hypoxia |->
          [spo2_percent |-> << 880, 930 >>,
           respiratory_rate |-> << 200, 280 >>,
           heart_rate |-> << 850, 1050 >>],
      fever_onset |->
          [skin_temp_c |-> << 378, 395 >>, heart_rate |-> << 900, 1100 >>,
           hrv_ms |-> << 250, 400 >>],
      burnout_stress |->
          [hrv_ms |-> << 150, 300 >>, heart_rate |-> << 850, 1000 >>,
           sleep_hours |-> << 40, 55 >>],
      dehydration |->
          [heart_rate |-> << 900, 1100 >>,
           blood_pressure_systolic |-> << 950, 1100 >>,
           skin_temp_c |-> << 370, 375 >>] ]

\* The empty dict _apply_anomaly returns when no anomaly is active.
NoRanges == [f \in {} |-> << 0, 0 >>]

\* The kinds a caller passes to inject_anomaly: two of the catalog and one
\* that is not in it.
RequestedKinds == { "hypoxia", "fever_onset", "arrhythmia" }
Durations == { 2, 30 }

\* inject_anomaly takes every kind, known or not.
AnyKind(k) == TRUE

\* 'anomaly_type not in ANOMALY_PATTERNS' negated.
InCatalog(k) == k \in DOMAIN ANOMALY_PATTERNS

\* The hours of the day datetime.now() is read at.
Hours == { 3, 19 }

\* random.gauss has no bound: a draw of -1, 0 or 1 stands for a noise far
\* below zero, of zero, and far above zero.
Draws == { -1, 0, 1 }

\* _baseline_hr_offset, _baseline_hrv_offset (uniform(-5, 5)) and
\* _baseline_temp_offset (uniform(-0.2, 0.2)): the two ends.
Offsets == { [hr |-> -50, hrv |-> -50, temp |-> -2],
             [hr |-> 50, hrv |-> 50, temp |-> 2] }

NoState ==
    [heart_rate |-> -1, hrv_ms |-> -1, spo2_percent |-> -1,
     skin_temp_c |-> -1, respiratory_rate |-> -1, activity_level |-> -1,
     steps_per_minute |-> -1, calories_per_minute |-> -1,
     sleep_quality |-> -1]

\* GroundTruthState.__init__: the midpoints of NORMAL_RANGES and literals.
InitialState ==
    [heart_rate |-> (600 + 800) \div 2, hrv_ms |-> (400 + 700) \div 2,
     spo2_percent |-> 980, skin_temp_c |-> 365, respiratory_rate |-> 140,
     activity_level |-> 100, steps_per_minute |-> 0,
     calories_per_minute |-> 12, sleep_quality |-> 750]

clamp(val, min_val, max_val) == Max(min_val, Min(max_val, val))

\* _random_walk: current + 0.1 * (target - current) * dt + gauss noise.
random_walk(cur, tgt, draw, dt) ==
    cur + ((tgt - cur) * dt) \div 10 + draw * NoiseMax

\* random.uniform(lo, hi): the two ends and the middle.
uniform(range, draw) ==
    IF draw = -1 THEN range[1]
    ELSE IF draw = 1 THEN range[2]
    ELSE (range[1] + range[2]) \div 2

get_circadian_adjustments(hour) ==
    IF 2 <= hour /\ hour <= 5
    THEN [heart_rate |-> -120, hrv_ms |-> 150, activity_level |-> -80]
    ELSE IF 6 <= hour /\ hour <= 8
    THEN [heart_rate |-> -50, hrv_ms |-> 50, activity_level |-> 50]
    ELSE IF 9 <= hour /\ hour <= 11
    THEN [heart_rate |-> 30, hrv_ms |-> 0, activity_level |-> 100]
    ELSE IF 12 <= hour /\ hour <= 14
    THEN [heart_rate |-> 50, hrv_ms |-> -50, activity_level |-> 0]
    ELSE IF 15 <= hour /\ hour <= 17
    THEN [heart_rate |-> 50, hrv_ms |-> 0, activity_level |-> 80]
    ELSE IF 18 <= hour /\ hour <= 20
    THEN [heart_rate |-> 80, hrv_ms |-> -80, activity_level |-> 150]
    ELSE IF 21 <= hour /\ hour <= 23
    THEN [heart_rate |-> -50, hrv_ms |-> 50, activity_level |-> -50]
    ELSE [heart_rate |-> -80, hrv_ms |-> 100, activity_level |-> -70]

\* _apply_anomaly: whether the overlay is still there at time t, and the
\* ranges it gives.
OverlayEnded(t) ==
    anomaly_type # "none" /\ anomaly_end_time # -1 /\ t > anomaly_end_time

apply_anomaly(t) ==
    IF anomaly_type = "none" \/ anomaly_end_time = -1 \/ OverlayEnded(t)
    THEN NoRanges
    ELSE ANOMALY_PATTERNS[anomaly_type]

\* The body of _evolve_state after the test of dt: s is the state before,
\* d the random draws of the step.
evolve_state(s, dt, hour, anomaly_ranges, d) ==
    LET circadian == get_circadian_adjustments(hour)
        Has(f) == f \in DOMAIN anomaly_ranges
        Mid(f) == (anomaly_ranges[f][1] + anomaly_ranges[f][2]) \div 2
        hr_target ==
            IF Has("heart_rate") THEN Mid("heart_rate")
            ELSE 700 + circadian.heart_rate + baseline_offset.hr
        hrv_target ==
            IF Has("hrv_ms") THEN Mid("hrv_ms")
            ELSE 550 + circadian.hrv_ms + baseline_offset.hrv
        activity_target ==
            IF Has("activity_level") THEN Mid("activity_level")
            ELSE 100 + circadian.activity_level
        heart_rate ==
            clamp(random_walk(s.heart_rate, hr_target, d.noise, dt),
                  450, 1800)
        hrv_ms == clamp(random_walk(s.hrv_ms, hrv_target, d.noise, dt),
                        100, 1200)
        spo2_percent ==
            IF Has("spo2_percent")
            THEN uniform(anomaly_ranges["spo2_percent"], d.spo2)
            ELSE clamp(random_walk(s.spo2_percent, 980, d.spo2, dt),
                       940, 1000)
        skin_temp_c ==
            IF Has("skin_temp_c")
            THEN uniform(anomaly_ranges["skin_temp_c"], d.temp)
            ELSE clamp(random_walk(s.skin_temp_c,
                                   365 + baseline_offset.temp, d.temp, dt),
                       355, 385)
        resp_target == 140 + (heart_rate - 700) \div 20
        respiratory_rate ==
            clamp(random_walk(s.respiratory_rate, resp_target, d.noise, dt),
                  100, 300)
        activity_level ==
            clamp(random_walk(s.activity_level, activity_target, d.noise,
                              dt), 0, 1000)
        steps_target ==
            IF activity_level < 200 THEN 0
            ELSE IF activity_level < 400 THEN d.steps
            ELSE activity_level \div 2
        steps_per_minute ==
            clamp(random_walk(s.steps_per_minute, steps_target, d.noise,
                              dt), 0, 1200)
        cal_target == 10 + activity_level \div 20
        calories_per_minute ==
            clamp(random_walk(s.calories_per_minute, cal_target, d.noise,
                              dt), 8, 150)
        sleep_quality ==
            clamp(random_walk(s.sleep_quality, 750, d.noise, dt), 400, 1000)
    IN  [heart_rate |-> heart_rate, hrv_ms |-> hrv_ms,
         spo2_percent |-> spo2_percent, skin_temp_c |-> skin_temp_c,
         respiratory_rate |-> respiratory_rate,
         activity_level |-> activity_level,
         steps_per_minute |-> steps_per_minute,
         calories_per_minute |-> calories_per_minute,
         sleep_quality |-> sleep_quality]

\* get_anomaly_status: what it returns in the current state.
get_anomaly_status ==
    IF anomaly_type # "none" /\ anomaly_end_time # -1
    THEN LET remaining == Max(0, anomaly_end_time - gen_time)
         IN  [active |-> remaining > 0, type |-> anomaly_type,
              remaining_seconds |-> remaining]
    ELSE [active |-> FALSE, type |-> "none", remaining_seconds |-> 0]

Created == gt_state # NoState

InitGenerator ==
    /\ gen_time = 0
    /\ gt_last_update = 0
    /\ anomaly_type = "none"
    /\ anomaly_end_time = -1
    /\ baseline_offset = [hr |-> 0, hrv |-> 0, temp |-> 0]
    /\ gt_state = NoState
    /\ snapshot = NoState
    /\ evolve_dt = 0
    /\ anomaly_active = "none"
    /\ inject_outcome = [requested |-> "none", outcome |-> "none"]

\* get_ground_truth: the first call constructs the GroundTruthState.
get_ground_truth ==
    /\ ~Created
    /\ \E o \in Offsets : baseline_offset' = o
    /\ gt_state' = InitialState
    /\ gt_last_update' = gen_time
    /\ anomaly_type' = "none"
    /\ anomaly_end_time' = -1
    /\ UNCHANGED << gen_time, snapshot, evolve_dt, anomaly_active,
                    inject_outcome >>
    /\ UNCHANGED notGenerator

\* The clock of the generator's host advances, by less or by more than the
\* cap of dt.
GeneratorTimePasses ==
    /\ \E d \in { 3, MAX_DT + 1 } :
          /\ gen_time + d <= MaxGenTime
          /\ gen_time' = gen_time + d
    /\ UNCHANGED << gt_last_update, anomaly_type, anomaly_end_time,
                    baseline_offset, gt_state, snapshot, evolve_dt,
                    anomaly_active, inject_outcome >>
    /\ UNCHANGED notGenerator

\* get_current_state: _evolve_state, then the snapshot of the state.  A dt
\* below 50 ms (here: zero seconds) leaves the state as it is.
get_current_state ==
    /\ Created
    /\ LET dt == Min(gen_time - gt_last_update, MAX_DT) IN
       IF dt < 1
       THEN /\ snapshot' = gt_state
            /\ UNCHANGED << gt_state, gt_last_update, anomaly_type,
                            anomaly_end_time, evolve_dt >>
       ELSE /\ \E hour \in Hours, noise \in Draws, spo2 \in Draws,
                  temp \in Draws, steps \in { 0, 100 } :
                  gt_state' =
                      evolve_state(gt_state, dt, hour,
                                   apply_anomaly(gen_time),
                                   [noise |-> noise, spo2 |-> spo2,
                                    temp |-> temp, steps |-> steps])
            /\ snapshot' = gt_state'
            /\ IF OverlayEnded(gen_time)
               THEN anomaly_type' = "none" /\ anomaly_end_time' = -1
               ELSE UNCHANGED << anomaly_type, anomaly_end_time >>
            /\ gt_last_update' = gen_time
            /\ evolve_dt' = dt
    /\ UNCHANGED << gen_time, baseline_offset, anomaly_active,
                    inject_outcome >>
    /\ UNCHANGED notGenerator

\* MultiSourceProducer.inject_anomaly: GroundTruthState.inject_anomaly, which
\* returns at once for a kind that is not in the catalog, and then the
\* producer's own anomaly_active.
inject_anomaly ==
    /\ Created
    /\ \E k \in RequestedKinds, duration_seconds \in Durations :
          /\ IF InCatalog(k)
             THEN /\ anomaly_type' = k
                  /\ anomaly_end_time' = gen_time + duration_seconds
             ELSE UNCHANGED << anomaly_type, anomaly_end_time >>
          /\ anomaly_active' = k
          /\ inject_outcome' =
                 [requested |-> k,
                  outcome |-> IF InCatalog(k) THEN "injected"
                              ELSE "ignored"]
    /\ UNCHANGED << gen_time, gt_last_update, baseline_offset, gt_state,
                    snapshot, evolve_dt >>
    /\ UNCHANGED notGenerator

NextGenerator ==
    \/ get_ground_truth
    \/ GeneratorTimePasses
    \/ get_current_state
    \/ inject_anomaly

----------------------------------------------------------------------------
(* lifespan (src/api/main.py): the startup and shutdown of the API server,  *)
(* with init_database (src/api/database.py), MultiSourceKafkaConsumer.start *)
(* and stop (src/api/kafka_consumer.py) and the BatchWriteBuffer.           *)

Tables == { "vitals", "alerts", "user_baselines" }

\* A lifespan that starts the consumer before it initialises the database.
LifespanConsumerFirst ==
    << "start_consumer", "vitals_store_clear", "create_tables",
       "start_flush_loop", "batch_buffer_stop", "consumer_stop" >>

\* The calls of lifespan in their order: init_database (the clear of the
\* in-memory store, then the tables), kafka_consumer.start,
\* batch_buffer.start_flush_loop, and after the yield batch_buffer.stop and
\* kafka_consumer.stop.
Lifespan ==
    << "vitals_store_clear", "create_tables", "start_consumer",
       "start_flush_loop", "batch_buffer_stop", "consumer_stop" >>

AtStep(name) ==
    /\ ~ls_failed
    /\ ls_step <= Len(Lifespan)
    /\ Lifespan[ls_step] = name

InitLifespan ==
    /\ ls_step = 1
    /\ ls_failed = FALSE
    /\ db_tables = {}
    /\ ring_cleared = FALSE
    /\ ls_ring = 0
    /\ consumer_running = FALSE
    /\ ls_flusher = "none"
    /\ ls_enabled = TRUE
    /\ ls_pending = 0
    /\ ls_flushed = 0
    /\ delivered = << >>
    /\ ls_log = << >>

\* init_database: vitals_store.clear().
init_database_clear ==
    /\ AtStep("vitals_store_clear")
    /\ ls_ring' = 0
    /\ ring_cleared' = TRUE
    /\ ls_step' = ls_step + 1
    /\ ls_log' = Append(ls_log, "clear")
    /\ UNCHANGED << ls_failed, db_tables, consumer_running, ls_flusher,
                    ls_enabled, ls_pending, ls_flushed, delivered >>
    /\ UNCHANGED notLifespan

\* init_database: the tables are dropped and created again and the
\* transaction is committed; an error of the store propagates out of lifespan
\* and the server does not start.
init_database_tables ==
    /\ AtStep("create_tables")
    /\ \E ok \in BOOLEAN :
          IF ok
          THEN /\ db_tables' = Tables
               /\ ls_step' = ls_step + 1
               /\ ls_log' = Append(ls_log, "tables")
               /\ UNCHANGED ls_failed
          ELSE /\ ls_failed' = TRUE
               /\ db_tables' = {}
               /\ UNCHANGED << ls_step, ls_log >>
    /\ UNCHANGED << ring_cleared, ls_ring, consumer_running, ls_flusher,
                    ls_enabled, ls_pending, ls_flushed, delivered >>
    /\ UNCHANGED notLifespan

\* kafka_consumer.start: after _wait_for_kafka (which raises when Kafka stays
\* away) the consumer threads are started.
kafka_consumer_start ==
    /\ AtStep("start_consumer")
    /\ \E ok \in BOOLEAN :
          IF ok
          THEN /\ consumer_running' = TRUE
               /\ ls_step' = ls_step + 1
               /\ ls_log' = Append(ls_log, "ingestion")
               /\ UNCHANGED ls_failed
          ELSE /\ ls_failed' = TRUE
               /\ UNCHANGED << consumer_running, ls_step, ls_log >>
    /\ UNCHANGED << db_tables, ring_cleared, ls_ring, ls_flusher, ls_enabled,
                    ls_pending, ls_flushed, delivered >>
    /\ UNCHANGED notLifespan

\* batch_buffer.start_flush_loop(loop); lifespan then yields.
lifespan_start_flush_loop ==
    /\ AtStep("start_flush_loop")
    /\ ls_flusher' = "running"
    /\ ls_step' = ls_step + 1
    /\ ls_log' = Append(ls_log, "flusher")
    /\ UNCHANGED << ls_failed, db_tables, ring_cleared, ls_ring,
                    consumer_running, ls_enabled, ls_pending, ls_flushed,
                    delivered >>
    /\ UNCHANGED notLifespan

\* A consumer thread hands an event to the listener (manager.broadcast): a
\* vital goes to the in-memory store and, while the buffer is enabled, to the
\* batch buffer.
ListenerGetsEvent ==
    /\ consumer_running
    /\ Len(delivered) < MaxLifespanMessages
    /\ \E type \in { "vital", "alert" } :
          /\ delivered' = Append(delivered,
                                 [type |-> type,
                                  tables |-> db_tables = Tables,
                                  cleared |-> ring_cleared])
          /\ ls_ring' = IF type = "vital" THEN ls_ring + 1 ELSE ls_ring
          /\ ls_pending' = IF type = "vital" /\ ls_enabled
                           THEN ls_pending + 1 ELSE ls_pending
    /\ UNCHANGED << ls_step, ls_failed, db_tables, ring_cleared,
                    consumer_running, ls_flusher, ls_enabled, ls_flushed,
                    ls_log >>
    /\ UNCHANGED notLifespan

\* _flush_loop: a flush of at most batch_size events.
LifespanFlush ==
    /\ ls_flusher = "running"
    /\ ls_pending > 0
    /\ ls_flushed' = ls_flushed + Min(BatchSize, ls_pending)
    /\ ls_pending' = ls_pending - Min(BatchSize, ls_pending)
    /\ UNCHANGED << ls_step, ls_failed, db_tables, ring_cleared, ls_ring,
                    consumer_running, ls_flusher, ls_enabled, delivered,
                    ls_log >>
    /\ UNCHANGED notLifespan

\* Shutdown: await batch_buffer.stop(), which disables the buffer, cancels
\* the flush task and does the final flush.
lifespan_batch_buffer_stop ==
    /\ AtStep("batch_buffer_stop")
    /\ ls_enabled' = FALSE
    /\ ls_flusher' = "stopped"
    /\ ls_flushed' = ls_flushed + Min(BatchSize, ls_pending)
    /\ ls_pending' = ls_pending - Min(BatchSize, ls_pending)
    /\ ls_step' = ls_step + 1
    /\ ls_log' = Append(ls_log, "final_flush")
    /\ UNCHANGED << ls_failed, db_tables, ring_cleared, ls_ring,
                    consumer_running, delivered >>
    /\ UNCHANGED notLifespan

\* Shutdown: await kafka_consumer.stop().
kafka_consumer_stop ==
    /\ AtStep("consumer_stop")
    /\ consumer_running' = FALSE
    /\ ls_step' = ls_step + 1
    /\ ls_log' = Append(ls_log, "ingestion_stopped")
    /\ UNCHANGED << ls_failed, db_tables, ring_cleared, ls_ring, ls_flusher,
                    ls_enabled, ls_pending, ls_flushed, delivered >>
    /\ UNCHANGED notLifespan

NextLifespan ==
    \/ init_database_clear
    \/ init_database_tables
    \/ kafka_consumer_start
    \/ lifespan_start_flush_loop
    \/ ListenerGetsEvent
    \/ LifespanFlush
    \/ lifespan_batch_buffer_stop
    \/ kafka_consumer_stop

----------------------------------------------------------------------------
(* The locks of the shared structures (src/api/database.py,                *)
(* src/api/kafka_consumer.py) and the call paths that take them.  A call   *)
(* path is the sequence of the "with self._lock" blocks an operation       *)
(* enters and leaves; the operations run concurrently.                     *)

\* InMemoryVitalsStore._lock, SpeedLayerAggregator._lock,
\* BatchWriteBuffer._lock, MessageBuffer._lock and the RLock of
\* MultiSourceKafkaConsumer.
Locks == { "ring", "fusion", "batch", "replay", "registry" }
Operations == { "ingest", "broadcast", "flush", "query" }

Acquire(l) == [op |-> "acquire", lock |-> l]
Release(l) == [op |-> "release", lock |-> l]
With(l) == << Acquire(l), Release(l) >>

\* A broadcast whose vitals_store.add would call the aggregator and the batch
\* buffer from inside its own lock.
BroadcastNested ==
    With("replay")
        \o << Acquire("ring"), Acquire("fusion"), Release("fusion"),
              Acquire("batch"), Release("batch"), Release("ring") >>
        \o With("fusion")

\* ConnectionManager.broadcast of a vital: message_buffer.add_message,
\* vitals_store.add, speed_aggregator.add_event, batch_buffer.add,
\* speed_aggregator.get_aggregated_state, each under its own lock.
BroadcastPath ==
    With("replay") \o With("ring") \o With("fusion") \o With("batch")
        \o With("fusion")

\* _source_consume_loop: the enabled test, then the source's statistics.
IngestPath == With("registry") \o With("registry")

\* flush(): the batch is taken under the lock; after the store write the
\* counters or the requeue are under the lock again.
FlushPath == With("batch") \o With("batch")

\* A query reads one structure under its lock: get_recent / get_latest /
\* get_stats (ring), get_aggregated_state (fusion), BatchWriteBuffer.get_stats
\* (batch), get_initial_state (replay), get_source_status (registry).
QueryPath(l) == With(l)

CallPath(p) ==
    IF p = "ingest" THEN IngestPath
    ELSE IF p = "broadcast" THEN BroadcastPath
    ELSE IF p = "flush" THEN FlushPath
    ELSE QueryPath(lk_query)

NextOp(p) == CallPath(p)[lk_pc[p]]

HeldBy(p) == { l \in Locks : lock_owner[l] = p }

InitLock ==
    /\ lock_owner = [l \in Locks |-> "free"]
    /\ lk_pc = [p \in Operations |-> 1]
    /\ lk_query = "ring"

\* One step of an operation's call path: it enters a "with" block when the
\* lock is free (the RLock also when the operation itself holds it) or
\* leaves one; after its last step the operation starts again.
LockStep(p) ==
    /\ LET o == NextOp(p) IN
       IF o.op = "acquire"
       THEN /\ \/ lock_owner[o.lock] = "free"
               \/ (o.lock = "registry" /\ lock_owner[o.lock] = p)
            /\ lock_owner' = [lock_owner EXCEPT ![o.lock] = p]
       ELSE lock_owner' = [lock_owner EXCEPT ![o.lock] = "free"]
    /\ lk_pc' = [lk_pc EXCEPT ![p] = IF lk_pc[p] = Len(CallPath(p))
                                     THEN 1 ELSE lk_pc[p] + 1]

IngestStep ==
    /\ LockStep("ingest")
    /\ UNCHANGED lk_query
    /\ UNCHANGED notLock

BroadcastStep ==
    /\ LockStep("broadcast")
    /\ UNCHANGED lk_query
    /\ UNCHANGED notLock

FlushStep ==
    /\ LockStep("flush")
    /\ UNCHANGED lk_query
    /\ UNCHANGED notLock

\* A query; the next one reads any of the structures.
QueryStep ==
    /\ LockStep("query")
    /\ IF lk_pc["query"] = Len(CallPath("query"))
       THEN \E l \in Locks : lk_query' = l
       ELSE UNCHANGED lk_query
    /\ UNCHANGED notLock

NextLock ==
    \/ IngestStep
    \/ BroadcastStep
    \/ FlushStep
    \/ QueryStep

----------------------------------------------------------------------------
(* From the generator to the detector: the topics the producers of          *)
(* src/data-generator/producer.py publish on and the topic the source table *)
(* of src/stream-processor/flink_job.py reads, for one user.                *)

\* SOURCE_PROFILES: the topic of each source.
SOURCE_PROFILES ==
    [apple |-> [topic |-> "biometrics-apple"],
     google |-> [topic |-> "biometrics-google"],
     oura |-> [topic |-> "biometrics-oura"]]

\* BiometricProducer.topic, the single-topic producer's default.
RawTopic == "biometrics-raw"

\* create_kafka_source_ddl: 'topic' = 'biometrics-raw'.
FlinkSourceTopic == "biometrics-raw"

KafkaTopics ==
    { SOURCE_PROFILES[s].topic : s \in DOMAIN SOURCE_PROFILES }
        \cup { RawTopic }

\* An event either satisfies the condition of a pattern ("A", as during an
\* injected anomaly) or ends a run of such events ("B").
Conditions == { "A", "B" }

\* The number of "A" rows at the end of a stream.
RECURSIVE TrailingRun(_)
TrailingRun(stream) ==
    IF stream = << >> \/ stream[Len(stream)].cond # "A" THEN 0
    ELSE 1 + TrailingRun(SubSeq(stream, 1, Len(stream) - 1))

PublishedCount ==
    LET RECURSIVE Sum(_)
        Sum(ts) == IF ts = {} THEN 0
                   ELSE LET t == CHOOSE x \in ts : TRUE
                        IN  Len(topics[t]) + Sum(ts \ { t })
    IN  Sum(KafkaTopics)

InitPipeline ==
    /\ topics = [t \in KafkaTopics |-> << >>]
    /\ flink_offset = 0
    /\ detector_stream = << >>
    /\ pipeline_alerts = 0

\* MultiSourceProducer.generate_and_publish: a source whose interval has
\* passed publishes its sample on profile.topic.
generate_and_publish ==
    /\ PublishedCount < MaxPublished
    /\ \E s \in DOMAIN SOURCE_PROFILES, c \in Conditions :
          topics' = [topics EXCEPT ![SOURCE_PROFILES[s].topic] =
                        Append(@, [source |-> s, n |-> PublishedCount + 1,
                                   cond |-> c])]
    /\ UNCHANGED << flink_offset, detector_stream, pipeline_alerts >>
    /\ UNCHANGED notPipeline

\* BiometricProducer.publish_event: the single-topic producer publishes on
\* its topic.
publish_event ==
    /\ PublishedCount < MaxPublished
    /\ \E c \in Conditions :
          topics' = [topics EXCEPT ![RawTopic] =
                        Append(@, [source |-> "legacy",
                                   n |-> PublishedCount + 1, cond |-> c])]
    /\ UNCHANGED << flink_offset, detector_stream, pipeline_alerts >>
    /\ UNCHANGED notPipeline

\* The source table biometrics_raw reads the next record of its topic; the
\* row goes to the user's stream, and a "B" row after a run of at least
\* min_run "A" rows closes a match, which is written to biometrics-alerts.
FlinkReads ==
    /\ flink_offset < Len(topics[FlinkSourceTopic])
    /\ LET row == topics[FlinkSourceTopic][flink_offset + 1] IN
          /\ detector_stream' = Append(detector_stream, row)
          /\ pipeline_alerts' =
                 IF row.cond = "B"
                    /\ TrailingRun(detector_stream)
                           >= MinRun("LOW_SPO2_HYPOXIA")
                 THEN pipeline_alerts + 1 ELSE pipeline_alerts
    /\ flink_offset' = flink_offset + 1
    /\ UNCHANGED topics
    /\ UNCHANGED notPipeline

NextPipeline ==
    \/ generate_and_publish
    \/ publish_event
    \/ FlinkReads

----------------------------------------------------------------------------
(* Specifications.                                                          *)

----------------------------------------------------------------------------
(* A source's topic and its consumer (src/api/kafka_consumer.py).  The      *)
(* worker's consumer is created once, subscribed to the topic, and reads    *)
(* from its position in the topic's log.                                    *)

InitBacklog ==
    /\ source_log = << >>
    /\ assigned = FALSE

\* The source's producer publishes an event on the topic, whether or not the
\* API consumes the source.
PublishOnTopic ==
    /\ Len(source_log) < MaxVitalMessages
    /\ source_log' = Append(source_log, source_enabled)
    /\ UNCHANGED assigned
    /\ UNCHANGED notBacklog

\* The first poll that completes the subscription: the group has no committed
\* offset and 'auto.offset.reset': 'latest' puts the position at the end of
\* the log.
WorkerFirstPoll ==
    /\ worker_pc = "poll"
    /\ ~assigned
    /\ assigned' = TRUE
    /\ consumed' = Len(source_log)
    /\ worker_pc' = "check"
    /\ UNCHANGED source_log
    /\ UNCHANGED << source_enabled, alerts_consumed, message_callbacks, tasks,
                    enrich, active_connections, health, outbox, mb_vitals,
                    mb_alerts, source_stats, invoked, added, failed_sends >>
    /\ UNCHANGED << batchVars, routerVars, fusionVars, detectorVars,
                    watermarkVars, storeVars, ringVars, generatorVars,
                    lifespanVars, lockVars, pipelineVars, sessionVars >>

\* consumer.poll returns the event at the consumer's position in the log.
WorkerPollTopic ==
    /\ assigned
    /\ consumed < Len(source_log)
    /\ WorkerPoll

NextSource ==
    \/ disable_source
    \/ enable_source
    \/ PublishOnTopic
    \/ WorkerCheck
    \/ WorkerFirstPoll
    \/ WorkerPollTopic
    \/ WorkerPollNone
    \/ TaskStart

----------------------------------------------------------------------------
(* ConversationSession and HealthCoachAgent.chat (src/api/claude_agent.py). *)
(* A message is modelled by its role.                                       *)

MAX_SESSION_MESSAGES == 20

\* ConversationSession.add_message: append, then keep the last 20.
add_message(msgs, role) ==
    LET appended_list == Append(msgs, role)
    IN  IF Len(appended_list) > MAX_SESSION_MESSAGES
        THEN SubSeq(appended_list,
                    Len(appended_list) - MAX_SESSION_MESSAGES + 1,
                    Len(appended_list))
        ELSE appended_list

\* ConversationSession.get_messages_for_api: role and content of each message.
get_messages_for_api(msgs) == msgs

InitSession ==
    /\ session_messages = << >>
    /\ chat_pc = "idle"
    /\ sent_to_model = << >>
    /\ chat_turns = 0

\* chat(): the user's message is added and the first request is made.
ChatBegin ==
    /\ chat_pc = "idle"
    /\ chat_turns < MaxTurns
    /\ chat_turns' = chat_turns + 1
    /\ session_messages' = add_message(session_messages, "user")
    /\ sent_to_model' = get_messages_for_api(session_messages')
    /\ chat_pc' = "called"
    /\ UNCHANGED notSession

\* The response asks for tools: they are run and the request is made again
\* with the session's messages, the response and the tool results.
ChatToolUse ==
    /\ chat_pc \in { "called", "tool_use" }
    /\ sent_to_model' = get_messages_for_api(session_messages)
                            \o << "assistant", "user" >>
    /\ chat_pc' = "tool_use"
    /\ UNCHANGED << session_messages, chat_turns >>
    /\ UNCHANGED notSession

\* The final response: its text is added as the assistant's message.
ChatEnd ==
    /\ chat_pc \in { "called", "tool_use" }
    /\ session_messages' = add_message(session_messages, "assistant")
    /\ chat_pc' = "idle"
    /\ UNCHANGED << sent_to_model, chat_turns >>
    /\ UNCHANGED notSession

\* messages.create raises (the request is refused or fails): the exception
\* leaves chat() with the user's message kept in the session.
ChatRaises ==
    /\ chat_pc \in { "called", "tool_use" }
    /\ chat_pc' = "idle"
    /\ UNCHANGED << session_messages, sent_to_model, chat_turns >>
    /\ UNCHANGED notSession

NextChat ==
    \/ ChatBegin
    \/ ChatToolUse
    \/ ChatEnd
    \/ ChatRaises

Init ==
    /\ InitBatch /\ InitRouter /\ InitFusion /\ InitDetector /\ InitWatermark
    /\ InitDispatch /\ InitStore /\ InitRing /\ InitGenerator
    /\ InitLifespan /\ InitLock /\ InitPipeline
    /\ InitBacklog /\ InitSession

SpecBatch == Init /\ [][NextBatch]_vars

\* The event loop runs a ready task: the flush loop is started, its sleep of
\* flush_interval ends, and a store that eventually accepts writes lets a
\* write that is tried again and again commit.
FairBatch ==
    /\ WF_vars(start_flush_loop)
    /\ WF_vars(FlushLoopWake)
    /\ SF_vars(FlushLoopWriteOk)

LiveBatch == SpecBatch /\ FairBatch

SpecRouter == Init /\ [][NextRouter]_vars

SpecFusion == Init /\ [][NextFusion]_vars

SpecDetector == Init /\ [][NextDetector]_vars

SpecWatermark == Init /\ [][NextWatermark]_vars

SpecDispatch == Init /\ [][NextDispatch]_vars

SpecManager == Init /\ [][NextManager]_vars

SpecReplay == Init /\ [][NextReplay]_vars

SpecStore == Init /\ [][NextStore]_vars

SpecAlertStore == Init /\ [][NextAlertStore]_vars

SpecRing == Init /\ [][NextRing]_vars

SpecGenerator == Init /\ [][NextGenerator]_vars

SpecLifespan == Init /\ [][NextLifespan]_vars

SpecLock == Init /\ [][NextLock]_vars

SpecPipeline == Init /\ [][NextPipeline]_vars

\* The two historical endpoints served concurrently by the event loop, with
\* the ingestion path offering events to the buffer meanwhile.
NextHistorical ==
    \/ add
    \/ \E r \in OverlappingRequests : HistBegin(r)
    \/ \E r \in OverlappingRequests : HistWork(r)
    \/ \E r \in OverlappingRequests : HistEnd(r)

SpecHistorical == Init /\ [][NextHistorical]_vars

SpecSource == Init /\ [][NextSource]_vars

SpecChat == Init /\ [][NextChat]_vars

----------------------------------------------------------------------------
(* Claims about BatchWriteBuffer.                                           *)

IsAscending(s) == \A i, j \in 1..Len(s) : i < j => s[i] < s[j]

\* C1: after pause() has returned and until resume() is called (paused holds
\* before and after the step), no flush commits rows to the store.
C1_NoWriteWhilePaused == [][(paused /\ paused') => written' = written]_vars

\* C2: an event that is in the buffer while the buffer is not paused is
\* eventually committed to the store, unless the buffer is paused again or
\* stopped first.
C2_EventuallyWritten ==
    \A e \in EventIds :
        [](((e \in Range(buffer)) /\ ~paused /\ enabled)
              => <>((e \in written) \/ paused \/ ~enabled))

\* An event accepted after a pause (an earlier offer was dropped by the pause)
\* has been committed.
C2_Witness ==
    \E k, e \in EventIds :
        /\ k < e
        /\ k <= offered
        /\ k \notin accepted
        /\ e \in written

\* A store write that was in flight has ended without committing and without
\* being cancelled: it failed.
WriteFailedStep ==
    \/ flush_task = "flushing" /\ flush_task' = "sleeping" /\ written' = written
    \/ stop_pc = "final_flush" /\ stop_pc' = "stopped" /\ written' = written

\* C3: when a batch write fails the batch is back at the head of the buffer
\* in its order, ahead of what was enqueued meanwhile (the buffer is again in
\* acceptance order, without duplicates), nothing of it is in the store or
\* lost, and total_flushed has not moved.
C3_RequeueAtHead ==
    [][WriteFailedStep =>
          /\ buffer' = (loop_batch \o stop_batch) \o buffer
          /\ IsAscending(buffer')
          /\ Range(buffer') \cap vitals_table' = {}
          /\ total_flushed' = total_flushed]_vars

\* A write has failed while add() had appended behind the batch in flight.
C3_Witness ==
    /\ last_outcome = "failed"
    /\ enq_in_flight
    /\ flush_task = "sleeping"
    /\ Len(buffer) >= 2

\* C4: once stop() has returned and its write was not refused, nothing is
\* pending and every accepted event has been committed.
C4_StopDrains ==
    (stop_pc = "stopped" /\ last_outcome = "ok")
        => (buffer = << >> /\ accepted \subseteq written)

----------------------------------------------------------------------------
(* Claims about query routing.                                              *)

\* C5: get_recent reads only the ring when minutes <= 30 and only the store
\* when minutes > 30; get_latest reads only the ring; get_stats reads only
\* the ring when hours <= 1 and only the store otherwise.
C5_RoutingByWindow ==
    /\ (last_query.op = "get_recent" /\ last_query.arg <= 30)
          => last_query.reads = { "memory" }
    /\ (last_query.op = "get_recent" /\ last_query.arg > 30)
          => last_query.reads = { "sqlite" }
    /\ last_query.op = "get_latest" => last_query.reads = { "memory" }
    /\ (last_query.op = "get_stats" /\ last_query.arg <= 1)
          => last_query.reads = { "memory" }
    /\ (last_query.op = "get_stats" /\ last_query.arg > 1)
          => last_query.reads = { "sqlite" }

\* A 30-minute query answered from the ring while the store holds a row of
\* the window that the ring does not hold.
C5_Witness ==
    /\ last_query.op = "get_recent"
    /\ last_query.arg = 30
    /\ last_query.reads = { "memory" }
    /\ \E r \in sqlite_rows :
          /\ r.ts >= clock - 30
          /\ \A i \in 1..Len(vitals) : vitals[i] # r

----------------------------------------------------------------------------
(* Claims on the SpeedLayerAggregator.                                      *)

\* The stored reading with the given source, for a reported metric.
StoredOf(m, source) ==
    CHOOSE d \in Range(latest_by_source[m]) : d.source = source

\* C6: at every query of the fused state a metric is reported only if some
\* source's stored reading for it is at most 10 s old, and the reported best
\* age never exceeds FRESHNESS_WINDOW_MS, whatever the timestamp strings of
\* the stored readings.
C6_OnlyFreshReported ==
    \A m \in DOMAIN aggregated_state :
        /\ \E d \in Range(latest_by_source[m]) :
              last_update - d.timestamp.at <= FRESHNESS_WINDOW_MS
        /\ aggregated_state[m].freshness_ms <= FRESHNESS_WINDOW_MS

\* C7: for each metric with a fresh reading ingested, the fused value is the
\* value of the reading with the greatest event timestamp among the fresh
\* readings ingested, in whatever order they arrived; the contributing
\* sources are listed newest first and the reading count is their number.
\* (Stated for tables whose timestamp strings all denote an instant.)
C7_NewestFreshObservation ==
    \A m \in AGGREGATABLE_METRICS :
        (\A d \in Range(latest_by_source[m]) : d.timestamp.kind # "invalid") =>
        /\ (newest_seen.at >= 0 /\ IsFresh(newest_seen, last_update))
              => /\ m \in DOMAIN aggregated_state
                 /\ aggregated_state[m].value \in newest_seen.vals
        /\ m \in DOMAIN aggregated_state
              => LET sources == aggregated_state[m].sources
                 IN  /\ aggregated_state[m].reading_count = Len(sources)
                     /\ \A i, j \in 1..Len(sources) :
                           i < j => StoredOf(m, sources[i]).timestamp.at
                                       >= StoredOf(m, sources[j]).timestamp.at

----------------------------------------------------------------------------
(* Claims on the detector.                                                  *)

\* The run lengths the patterns are said to require.
ClaimedMinRun(p) ==
    CASE p = "TACHYCARDIA_AT_REST" -> 5
      [] p = "LOW_SPO2_HYPOXIA" -> 3
      [] p = "ELEVATED_TEMPERATURE" -> 3

AlertsOf(p, u) ==
    { a \in BagToSet(alerts) : a.alert_type = p /\ a.user_id = u }

\* How many alerts of a pattern and user were emitted for the run that ends
\* with the given row.
AlertCount(p, u, last) ==
    LET S == { a \in AlertsOf(p, u) : a.end_time = last }
    IN  BagCardinality([a \in S |-> alerts[a]])

\* Rows first..e-1 are a whole run of A rows (the row before it, if any, is
\* not an A) and row e is a B.
ClosedRun(p, part, first, e) ==
    /\ 1 <= first /\ first < e /\ e <= Len(part)
    /\ \A i \in first..(e - 1) : DefineA(p, part[i])
    /\ first = 1 \/ ~DefineA(p, part[first - 1])
    /\ DefineB(p, part[e])

\* C8: every alert has event_count >= the pattern's min_run (5, 3, 3), its
\* counted events are consecutive rows of the user's stream that all satisfy
\* A, and the row right after them satisfies B.
C8_AlertsAreRuns ==
    \A a \in BagToSet(alerts) :
        LET part == rows[a.user_id]
        IN  /\ a.event_count >= ClaimedMinRun(a.alert_type)
            /\ 1 <= a.start_time /\ a.end_time < Len(part)
            /\ a.event_count = a.end_time - a.start_time + 1
            /\ \A i \in a.start_time..a.end_time : DefineA(a.alert_type, part[i])
            /\ DefineB(a.alert_type, part[a.end_time + 1])

\* A tachycardia alert, and a temperature alert of the same user that counts
\* more rows (its run runs through a row without heart rate).
C8_Witness ==
    \E a, b \in BagToSet(alerts) :
        /\ a.alert_type = "TACHYCARDIA_AT_REST"
        /\ b.alert_type = "ELEVATED_TEMPERATURE"
        /\ a.user_id = b.user_id
        /\ b.event_count > a.event_count

\* C9: a run of exactly min_run A rows followed by a B row yields exactly one
\* alert, a run of min_run - 1 A rows followed by a B row yields none.
C9_ExactRun ==
    \A u \in Users, p \in Patterns :
        \A e \in 1..Len(rows[u]) :
            /\ ClosedRun(p, rows[u], e - ClaimedMinRun(p), e)
                  => AlertCount(p, u, e - 1) = 1
            /\ ClosedRun(p, rows[u], e - (ClaimedMinRun(p) - 1), e)
                  => AlertCount(p, u, e - 1) = 0

\* One partition holds a closed run of exactly min_run rows, which has its
\* alert, and a closed run of min_run - 1 rows.
C9_Witness ==
    \E u \in Users, p \in Patterns :
        \E e, f \in 1..Len(rows[u]) :
            /\ ClosedRun(p, rows[u], e - ClaimedMinRun(p), e)
            /\ ClosedRun(p, rows[u], f - (ClaimedMinRun(p) - 1), f)
            /\ AlertCount(p, u, e - 1) = 1

\* C10: the matches of one pattern in one user's stream never overlap (a row
\* is in at most one alert's run), every closed run of at least min_run rows
\* has exactly one alert, and matching resumed after the last row of each
\* match.
C10_NoOverlap ==
    \A u \in Users, p \in Patterns :
        LET mine == AlertsOf(p, u)
            part == rows[u]
        IN  /\ \A a \in mine :
                  /\ CopiesIn(a, alerts) = 1
                  /\ skip_to[<< p, u >>] > a.end_time + 1
            /\ \A a, b \in mine :
                  a # b => \/ a.end_time + 1 < b.start_time
                           \/ b.end_time + 1 < a.start_time
            /\ \A e \in 1..Len(part) :
                  DefineB(p, part[e]) =>
                      \A first \in 1..(e - ClaimedMinRun(p)) :
                          ClosedRun(p, part, first, e)
                              => AlertCount(p, u, e - 1) = 1

\* Two alerts of one pattern in one user's stream, with rows in between that
\* belong to neither.
C10_Witness ==
    \E u \in Users, p \in Patterns :
        \E a, b \in AlertsOf(p, u) :
            /\ a.end_time + 1 < b.start_time
            /\ Len(rows[u]) > b.end_time

\* C11: an alert is emitted only by the arrival of the B row that closes its
\* run, never while the run is open; its start_time is the ts of the first
\* accepted row, its end_time the ts of the last accepted row (the row before
\* the B), and end_time >= start_time.
C11_EmittedAtClose ==
    [][\A a \in BagToSet(alerts') :
          CopiesIn(a, alerts') > CopiesIn(a, alerts) =>
              LET part == rows'[a.user_id]
              IN  /\ Len(part) = Len(rows[a.user_id]) + 1
                  /\ DefineB(a.alert_type, part[Len(part)])
                  /\ a.end_time = Len(part) - 1
                  /\ 1 <= a.start_time /\ a.start_time <= a.end_time
                  /\ \A i \in a.start_time..a.end_time :
                        DefineA(a.alert_type, part[i])
                  /\ \/ a.start_time = 1
                     \/ ~DefineA(a.alert_type, part[a.start_time - 1])]_vars

\* A partition with an alert for a closed run and, at its end, an open run of
\* at least min_run rows that has no alert.
C11_Witness ==
    \E u \in Users, p \in Patterns :
        LET part == rows[u]
            n == ClaimedMinRun(p)
        IN  /\ AlertsOf(p, u) # {}
            /\ Len(part) >= n
            /\ \A i \in (Len(part) - n + 1)..Len(part) : DefineA(p, part[i])
            /\ \A a \in AlertsOf(p, u) : a.end_time < Len(part) - n

\* The severity the thresholds give to the sum of n readings.
ClaimedSeverity(p, sum, n) ==
    CASE p = "TACHYCARDIA_AT_REST" ->
             IF sum > 130 * n THEN "CRITICAL"
             ELSE IF sum > 115 * n THEN "HIGH" ELSE "MEDIUM"
      [] p = "LOW_SPO2_HYPOXIA" ->
             IF sum < 90 * n THEN "CRITICAL"
             ELSE IF sum < 92 * n THEN "HIGH" ELSE "MEDIUM"
      [] p = "ELEVATED_TEMPERATURE" ->
             IF sum > 3850 * n THEN "CRITICAL"
             ELSE IF sum > 3800 * n THEN "HIGH" ELSE "MEDIUM"

\* Row e closes a whole run of five (HR 120, activity 5, steps 0) rows with a
\* (HR 80, activity 5, steps 0) row.
ExampleRunAt(part, e) ==
    /\ e >= 6 /\ e <= Len(part)
    /\ \A i \in (e - 5)..(e - 1) : part[i] = Resting120
    /\ part[e] = Recovered80
    /\ e = 6 \/ ~DefineA("TACHYCARDIA_AT_REST", part[e - 6])

\* C12: the severity of an alert is the threshold class of the average of the
\* metric over its accepted A rows, the terminator excluded; five rows
\* (HR 120, activity 5, steps 0) then one (HR 80, activity 5, steps 0) yield
\* one TACHYCARDIA_AT_REST alert with event_count 5 and severity HIGH.
C12_SeverityOfAverage ==
    /\ \A a \in BagToSet(alerts) :
          LET part == rows[a.user_id]
              run == a.start_time..a.end_time
          IN  a.severity =
                  ClaimedSeverity(a.alert_type,
                                  SumMeasured(a.alert_type, part,
                                              a.start_time, a.end_time),
                                  Cardinality(run))
    /\ \A u \in Users : \A e \in 1..Len(rows[u]) :
          ExampleRunAt(rows[u], e) =>
              /\ AlertCount("TACHYCARDIA_AT_REST", u, e - 1) = 1
              /\ \A a \in AlertsOf("TACHYCARDIA_AT_REST", u) :
                    a.end_time = e - 1 =>
                        a.event_count = 5 /\ a.severity = "HIGH"

\* The example's run with its alert, its average 600 / 5.
C12_Witness ==
    \E u \in Users : \E e \in 1..Len(rows[u]) :
        /\ ExampleRunAt(rows[u], e)
        /\ \E a \in AlertsOf("TACHYCARDIA_AT_REST", u) :
              /\ a.end_time = e - 1
              /\ a.avg_heart_rate = [sum |-> 600, of |-> 5]

----------------------------------------------------------------------------
(* Claims on the detector's event time.                                     *)

\* The rows handed to the patterns are in ts order.
ConsideredInTsOrder ==
    \A i, j \in 1..Len(considered) :
        i < j => arrivals[considered[i]].ts <= arrivals[considered[j]].ts

\* C13 as stated: a row at most 5 s behind the newest row seen is placed in
\* ts order and considered, a row more than 5 s behind is ignored.
C13_AtMostFiveSeconds ==
    /\ ConsideredInTsOrder
    /\ \A n \in 1..Len(arrivals) :
          /\ arrivals[n].behind <= WatermarkDelay => n \notin ignored
          /\ arrivals[n].behind > WatermarkDelay => n \in ignored

\* C13 as the declaration has it: a row less than 5 s behind the newest row
\* seen is never ignored and the rows considered are in ts order; a row is
\* ignored only when it is 5 s or more behind, and a row is either ignored or
\* buffered or considered, once.
C13_LessThanFiveSeconds ==
    /\ ConsideredInTsOrder
    /\ \A n \in 1..Len(arrivals) :
          /\ arrivals[n].behind < WatermarkDelay => n \notin ignored
          /\ n \in ignored => arrivals[n].behind >= WatermarkDelay
          /\ (n \in ignored) # (n \in cep_buffer \cup Range(considered))
    /\ cep_buffer \cap Range(considered) = {}
    /\ NoDup(considered)
    /\ watermark <= WatermarkFor(max_ts) \/ watermark = NoWatermark

\* A row 4 s behind that arrived out of order and was considered ahead of a
\* row that arrived before it.
C13_Witness ==
    \E i, j \in 1..Len(considered) :
        /\ i < j
        /\ considered[i] > considered[j]
        /\ arrivals[considered[i]].behind = WatermarkDelay - 1

----------------------------------------------------------------------------
(* Claims on the replay buffer.                                             *)

\* The last count elements of a history, oldest first.
LastOf(history, count) ==
    [k \in 1..count |-> history[Len(history) - count + k]]

\* What the replay buffer holds of a history.
Held(history, maximum) == LastOf(history, Min(maximum, Len(history)))

\* The initial state the claim describes, from the messages broadcast so far.
ClaimedInitialState ==
    LET held_vitals == Held(added.vital, max_vitals)
        held_alerts == Held(added.alert, max_alerts)
    IN  [type |-> "initial_state",
         vitals |-> LastOf(held_vitals, Min(InitialVitals, Len(held_vitals))),
         alerts |-> LastOf(held_alerts, Min(InitialAlerts, Len(held_alerts))),
         source_stats |-> Len(added.vital)]

----------------------------------------------------------------------------
(* Claims on the ConnectionManager.                                         *)

\* The connections a broadcast in flight has waited on for the whole timeout.
TimedOutIn(task_list) ==
    UNION { task_list[i].waiting : i \in { k \in 1..Len(task_list) :
                /\ task_list[k].pc = "gathering"
                /\ task_list[k].timed_out } }

\* The broadcasts that start in this step.
Starting ==
    { i \in 1..Len(tasks) : tasks[i].pc = "scheduled"
                            /\ tasks'[i].pc # "scheduled" }

\* C14: a connection whose send has blocked for the whole timeout during the
\* broadcast of one event is out of the active connections by the time the
\* next event's broadcast starts.
C14_RemovedBeforeNextEvent ==
    [][Starting # {} => TimedOutIn(tasks) \cap active_connections = {}]_vars

\* C15: a connection one of whose sends of a vital, an alert or an
\* alert_enriched has failed or timed out, and which has been passed over,
\* is not among the active connections.
C15_FailedSendRemoved ==
    \A c \in failed_sends : c \notin active_connections

----------------------------------------------------------------------------
(* Claims on the consumer's dispatch.                                       *)

\* C17: every registered listener is invoked with the events of a source in
\* the order they were consumed.
C17_ListenersInOrder ==
    \A cb \in Callbacks : \A i, j \in 1..Len(invoked[cb]) :
        (i < j /\ invoked[cb][i].type = invoked[cb][j].type)
            => invoked[cb][i].n < invoked[cb][j].n

\* C18: from the return of disable_source until enable_source, no listener
\* is invoked with a vital of the source.
C18_NoDispatchWhileDisabled ==
    [][(~source_enabled /\ ~source_enabled') => invoked' = invoked]_vars

----------------------------------------------------------------------------
(* Claims on the persistent store.                                          *)

\* C19: persisting a batch of events a second time leaves the vitals table
\* as the first time left it - the same event_id values, each with the same
\* field values, and the same number of rows - and the table has one row
\* per event_id.
C19_PersistTwiceAsOnce ==
    /\ \A batch \in EventBatches :
          LET once == executemany(vitals_db, batch, db_now + 1)
              twice == executemany(once, batch, db_now + 2)
          IN  /\ VitalFields(twice) = VitalFields(once)
              /\ Cardinality(twice.rows) = Cardinality(once.rows)
    /\ \A r1, r2 \in vitals_db.rows : r1.event_id = r2.event_id => r1 = r2

\* A batch whose events were in the table was committed again, by a retry of
\* the flush that raised after its commit, and replaced their rows.
C19_Witness ==
    /\ vitals_again
    /\ flush_retry # << >>
    /\ \E r \in vitals_db.rows : r.id > Cardinality(vitals_db.rows)

\* C20: storing an alert whose alert_id is stored adds no row, and the
\* alerts table holds one row for each alert_id stored so far.
C20_OneRowPerAlertId ==
    /\ \A alert \in StoredAlerts :
          alert.alert_id \in alert_ids =>
              Cardinality(InsertOrReplaceAlert(alerts_db, alert, db_now + 1).rows)
                  = Cardinality(alerts_db.rows)
    /\ { r.alert_id : r \in alerts_db.rows } = alert_ids
    /\ Cardinality(alerts_db.rows) = Cardinality(alert_ids)

\* An alert_id was stored a second time, with two alert_id values stored.
C20_Witness ==
    /\ alerts_again
    /\ Cardinality(alert_ids) = 2

----------------------------------------------------------------------------
(* Claims on the ring of the latest vitals and on the baseline.             *)

\* The events given to add() so far, each with its append number.
AppendedEvents == [k \in 1..Len(appended) |-> [user |-> appended[k], seq |-> k]]

\* C21: the ring holds at most RingSize events, and they are the most
\* recently appended min(n, RingSize) of the n events appended, in append
\* order with the newest at the tail; get_latest returns, for the user asked
\* for, the newest of that user's events in the ring, and none only when the
\* ring has none.
C21_RingIsMostRecent ==
    /\ Len(hot_ring) <= RingSize
    /\ hot_ring = LastOf(AppendedEvents, Min(Len(appended), RingSize))
    /\ \A u \in Users :
          LET got == get_latest(hot_ring, Len(hot_ring), u)
              mine == { k \in 1..Len(hot_ring) : hot_ring[k].user = u }
          IN  IF mine = {} THEN got = NoEvent
              ELSE /\ got.user = u
                   /\ \E k \in mine : /\ hot_ring[k] = got
                                      /\ \A j \in mine : j <= k

\* More events were appended than the ring holds, and get_latest has
\* returned an event of its user that is not at the tail.
C21_Witness ==
    /\ Len(appended) > RingSize
    /\ Len(hot_ring) = RingSize
    /\ latest_got.result # NoEvent
    /\ latest_got.result = get_latest(hot_ring, Len(hot_ring), latest_got.user)
    /\ latest_got.result # hot_ring[Len(hot_ring)]

\* C24: once MIN_DATA_POINTS vitals of a user have been ingested, the
\* baseline the deviation check reads for that user has at least that many
\* data points.
C24_BaselineHasDataPoints ==
    \A u \in Users :
        Cardinality({ k \in 1..Len(appended) : appended[k] = u })
                >= MIN_DATA_POINTS
            => user_baselines[u] >= MIN_DATA_POINTS

----------------------------------------------------------------------------
(* Claims about the GroundTruthState of the data generator.                 *)

\* The ranges _evolve_state clamps to, in tenths.
ClampRanges ==
    [heart_rate |-> << 450, 1800 >>, hrv_ms |-> << 100, 1200 >>,
     spo2_percent |-> << 940, 1000 >>, skin_temp_c |-> << 355, 385 >>,
     respiratory_rate |-> << 100, 300 >>, activity_level |-> << 0, 1000 >>,
     steps_per_minute |-> << 0, 1200 >>,
     calories_per_minute |-> << 8, 150 >>,
     sleep_quality |-> << 400, 1000 >>]

WithinClampRanges(s) ==
    \A f \in DOMAIN ClampRanges :
        ClampRanges[f][1] <= s[f] /\ s[f] <= ClampRanges[f][2]

\* C22: every snapshot get_current_state returns has each field within its
\* clamp range, also while an anomaly overlay is active, and an evolution
\* step applies at most 5 seconds of elapsed time.
C22_SnapshotWithinClampRanges ==
    /\ snapshot # NoState => WithinClampRanges(snapshot)
    /\ evolve_dt <= MAX_DT

\* C23: inject_anomaly with a kind that is not in the catalog leaves the
\* overlay (kind and end time) and the result of get_anomaly_status as they
\* were, so an active anomaly stays active, and it returns without an error.
C23_UnknownKindIgnored ==
    [][(inject_anomaly /\ anomaly_active' \notin DOMAIN ANOMALY_PATTERNS)
        => /\ anomaly_type' = anomaly_type
           /\ anomaly_end_time' = anomaly_end_time
           /\ get_anomaly_status' = get_anomaly_status
           /\ inject_outcome'.outcome = "ignored"]_vars

\* An unknown kind was injected while a known anomaly is active.
C23_Witness ==
    /\ inject_outcome.requested = "arrhythmia"
    /\ anomaly_active = "arrhythmia"
    /\ get_anomaly_status.active
    /\ get_anomaly_status.type = "hypoxia"

----------------------------------------------------------------------------
(* Claims about the error path of VitalsRepository.get_stats.               *)

\* C28: get_stats(hours > 1) returns a result when the store query fails:
\* no exception escapes the repository (a result of -1 is the NameError of
\* "return stats").
C28_GetStatsReturnsOnError ==
    (last_query.op = "get_stats" /\ last_query.arg > 1)
        => last_query.result # -1

----------------------------------------------------------------------------
(* Claims about add() on a paused BatchWriteBuffer.                         *)

\* C30: while the buffer is paused add() leaves the buffer unchanged, and an
\* event offered during a pause (offered and never accepted) is not in the
\* buffer, in a batch being flushed, or among the rows a flush has written.
C30_PausedAddDropsEvent ==
    /\ [][(offered' = offered + 1 /\ paused) => buffer' = buffer]_vars
    /\ [](\A e \in 1..offered :
              e \notin accepted
                  => /\ e \notin Range(buffer)
                     /\ e \notin Range(loop_batch) \cup Range(stop_batch)
                     /\ e \notin written
                     /\ e \notin vitals_table)

\* An event was offered during a pause of a buffer that is still enabled, and
\* a flush has since written an event that was offered after it.
C30_Witness ==
    /\ enabled
    /\ \E e \in 1..offered :
          /\ e \notin accepted
          /\ \E w \in written : w > e

----------------------------------------------------------------------------
(* Claims about the startup and shutdown order.                             *)

\* Step a of lifespan ran before step b, if b ran at all.
RanBefore(a, b) ==
    \A j \in 1..Len(ls_log) :
        ls_log[j] = b => \E i \in 1..(j - 1) : ls_log[i] = a

\* C25: on startup the store tables are created and the in-memory store is
\* cleared before ingestion starts, and ingestion starts before the batch
\* flusher, so every event a listener gets finds the tables there and the
\* store cleared; on shutdown the batch flusher is stopped with its final
\* flush before ingestion is stopped.
C25_StartupShutdownOrder ==
    /\ RanBefore("tables", "ingestion")
    /\ RanBefore("clear", "ingestion")
    /\ RanBefore("ingestion", "flusher")
    /\ RanBefore("final_flush", "ingestion_stopped")
    /\ consumer_running => (db_tables = Tables /\ ring_cleared)
    /\ \A i \in 1..Len(delivered) :
          delivered[i].tables /\ delivered[i].cleared

\* The server has started, a listener got a vital, the flusher wrote it and
\* the server has shut down.
C25_Witness ==
    /\ ls_step > Len(Lifespan)
    /\ \E i \in 1..Len(delivered) : delivered[i].type = "vital"
    /\ ls_flushed > 0
    /\ ls_flusher = "stopped"

----------------------------------------------------------------------------
(* Claims about the locks of the shared structures.                         *)

\* Operation p is at the entry of a "with" block whose lock another holds.
Waiting(p) ==
    /\ NextOp(p).op = "acquire"
    /\ lock_owner[NextOp(p).lock] \notin { "free", p }

\* C26: no operation holds two of the locks at once, on the call paths of
\* ingest, query, flush and broadcast; hence no deadlock: an operation that
\* waits for a lock waits for a holder that is not itself waiting.
C26_OneLockAtATime ==
    /\ \A p \in Operations : Cardinality(HeldBy(p)) <= 1
    /\ \A p \in Operations :
          Waiting(p) => ~Waiting(lock_owner[NextOp(p).lock])

\* Three operations hold a lock each and the fourth waits for one of them.
C26_Witness ==
    /\ Cardinality({ p \in Operations : HeldBy(p) # {} }) = 3
    /\ \E p \in Operations : Waiting(p)

----------------------------------------------------------------------------
(* Claims about the enrichment of alerts.                                   *)

\* The enrichment of alert n has produced an insight: a client has got the
\* alert_enriched message.
Enriched(n) ==
    \E c \in Connections :
        \E i \in 1..Len(outbox[c]) : outbox[c][i] = EnrichedMessage(n)

\* Client c has got message m.
Got(c, m) == \E i \in 1..Len(outbox[c]) : outbox[c][i] = m

\* C27: once the enrichment of an alert that produced an insight has ended,
\* every connection that has been active and sound since the alert was
\* broadcast to it has the alert and the alert_enriched of the same alert,
\* also when the active connections change while the enriched alert is sent.
C27_AlertAndEnrichedDelivered ==
    \A n \in 1..MaxAlertMessages : \A c \in active_connections :
        (enrich[n].pc = "done" /\ Enriched(n) /\ health[c] = "ok"
            /\ Got(c, AlertMessage(n)))
                => Got(c, EnrichedMessage(n))

----------------------------------------------------------------------------
(* Claims about the way from the sources to the detector.                   *)

\* The events the sources have published on their own topics.
SourceEvents ==
    UNION { Range(topics[SOURCE_PROFILES[s].topic]) :
                s \in DOMAIN SOURCE_PROFILES }

\* A source has published a run of at least min_run "A" events and then a
\* "B" event.
SustainedThenTerminated ==
    \E s \in DOMAIN SOURCE_PROFILES :
        LET log == topics[SOURCE_PROFILES[s].topic] IN
        \E j \in 1..Len(log) :
            /\ log[j].cond = "B"
            /\ TrailingRun(SubSeq(log, 1, j - 1))
                   >= MinRun("LOW_SPO2_HYPOXIA")

\* C29: every event a source publishes on its per-source topic is fed to the
\* detector's stream of the user, so that once the detector has read all
\* there is for it to read, a sustained condition in a source's events
\* followed by a terminating event has produced an alert.
C29_SourceEventsReachDetector ==
    flink_offset = Len(topics[FlinkSourceTopic])
        => /\ SourceEvents \subseteq Range(detector_stream)
           /\ SustainedThenTerminated => pipeline_alerts > 0


----------------------------------------------------------------------------
(* C31: a historical bulk load writes only to the persistent store: every   *)
(* step of a load request leaves the HotRing, the FusionTable, the          *)
(* baselines and the BatchBuffer's contents unchanged, its only write adds  *)
(* the generated rows to the vitals table, and the step that ends the       *)
(* request leaves the buffer resumed, after a successful load and after a   *)
(* failed one.                                                              *)
C31_BulkLoadWritesOnlyStore ==
    [][ \A r \in Requests :
          ( \/ hist[r] = "load"
            \/ hist[r] = "finishing" /\ HistoricalRows \subseteq vitals_table )
          /\ hist'[r] # hist[r]
          => /\ UNCHANGED << buffer, vitals, hot_ring, latest_by_source,
                             aggregated_state, baseline_data, user_baselines >>
             /\ vitals_table' \in { vitals_table,
                                    vitals_table \cup HistoricalRows }
             /\ ( hist'[r] = "idle" => ~paused' ) ]_vars

\* A load has inserted its rows and is about to end, while accepted events
\* wait in the paused buffer.
C31_Witness ==
    \E r \in Requests :
        /\ hist[r] = "finishing"
        /\ HistoricalRows \subseteq vitals_table
        /\ paused
        /\ buffer # << >>

----------------
(* Claims about InMemoryVitalsStore.get_recent.                             *)

\* C32: get_recent(minutes <= 30, user) returns every event held in the ring
\* for that user whose timestamp is not older than the cutoff, whatever the
\* order in which the events were appended.
C32_GetRecentReturnsWindow ==
    \A minutes \in QueryMinutes, u \in Users :
        minutes <= REALTIME_THRESHOLD_MINUTES
        => Range(Memory_get_recent(minutes, u))
             = { vitals[i] : i \in { j \in 1..Len(vitals) :
                                        /\ vitals[j].user = u
                                        /\ vitals[j].ts >= clock - minutes } }


----------------------------------------------------------------------------
(* Claims about the loss of accepted events.                                *)

\* C33: whenever no flush is in flight (the loop's flush and stop()'s final
\* flush have each completed, failed or been cancelled), every event accepted
\* by add() is still in the buffer or has been written to the store.
C33_AcceptedNeverLost ==
    (flush_task # "flushing" /\ stop_pc # "final_flush")
        => accepted \subseteq (Range(buffer) \cup written)


----------------------------------------------------------------------------
(* Claims about overlapping historical requests.                            *)

\* C34: while any historical bulk-load or wipe request is in progress the
\* buffer is paused, also when two such requests overlap.
C34_PausedWhileAnyRequest ==
    (\E r \in OverlappingRequests : hist[r] # "idle") => paused


----------------------------------------------------------------------------
(* Claims about the initial state and the live stream of one client.        *)

\* The messages client c was sent after its initial state.
LiveStream(c) == SubSeq(outbox[c], 2, Len(outbox[c]))

\* The number of the newest message of a replayed list; 0 for an empty list.
NewestReplayed(list) == IF list = << >> THEN 0 ELSE list[Len(list)].n

\* C35: for a client that is connected and sound, no vital or alert message
\* is sent live twice, none is both in its initial_state and sent live, and
\* every message buffered after its initial_state was taken has been sent to
\* it live.
C35_SnapshotThenLiveOnce ==
    \A c \in active_connections :
        health[c] = "ok" =>
            LET snap == outbox[c][1]
                live == LiveStream(c)
            IN  /\ snap.type = "initial_state"
                /\ \A i, j \in 1..Len(live) : live[i] = live[j] => i = j
                /\ \A i \in 1..Len(live) :
                      /\ live[i] \notin Range(snap.vitals)
                      /\ live[i] \notin Range(snap.alerts)
                /\ \A k \in 1..Len(added.vital) :
                      added.vital[k].n > NewestReplayed(snap.vitals)
                          => added.vital[k] \in Range(live)
                /\ \A k \in 1..Len(added.alert) :
                      added.alert[k].n > NewestReplayed(snap.alerts)
                          => added.alert[k] \in Range(live)

\* A client connected between two vitals: the first is in its initial state
\* and the second, and an alert, reached it live.
C35_Witness ==
    \E c \in active_connections :
        /\ health[c] = "ok"
        /\ Len(outbox[c]) >= 3
        /\ outbox[c][1].vitals = << VitalMessage(1) >>
        /\ VitalMessage(2) \in Range(LiveStream(c))
        /\ AlertMessage(1) \in Range(LiveStream(c))


----------------------------------------------------------------------------
(* Claims about the insight of a stored alert.                              *)

\* C36: a stored alert whose enrichment has written its insight carries that
\* insight, whichever of AlertsRepository.insert and update_insight ran
\* first, and also after the same alert_id has been stored again.
C36_StoredAlertKeepsInsight ==
    \A r \in alerts_db.rows :
        r.alert_id \in insight_ids => r.ai_insight = "insight"


----------------------------------------------------------------------------
(* Claims about the events published while a source is disabled.            *)

\* C37: an event published on the source's topic while the source was
\* disabled is never dispatched to the listeners, also after the source has
\* been enabled again.
C37_DisabledBacklogSkipped ==
    \A i \in 1..Len(invoked["broadcast"]) :
        source_log[invoked["broadcast"][i].n]


----------------------------------------------------------------------------
(* Claims about the conversation session.                                   *)

\* C38: the session keeps at most 20 messages, and every list of messages
\* passed to the model begins with a message of the user, also once the
\* session has been cut to its last 20 messages.
C38_SessionBoundedAndUserFirst ==
    /\ Len(session_messages) <= MAX_SESSION_MESSAGES
    /\ sent_to_model # << >> => sent_to_model[1] = "user"

============================================================================
